---- MODULE Spec2Model ----
(***************************************************************************)
(* Research mission pipeline (ResearchPipeline, OpenAISearchClient).       *)
(*                                                                         *)
(* Texts are sequences of string tokens: a template literal is the         *)
(* sequence of its literal pieces and its interpolated values, so that     *)
(* "contains", "replace" and interpolation are computed, not assumed.      *)
(*                                                                         *)
(* Three specifications share the module:                                  *)
(*   SpecPlan  planResearchSteps over provider outcomes                    *)
(*   Spec      executeResearchPlan, step by step, with the promise job     *)
(*             queue of its tail and the background comprehensive phase    *)
(*   SpecAgg   generateBasicResults over executed step lists               *)
(***************************************************************************)
EXTENDS Integers, Sequences, FiniteSets, TLC

VARIABLES
    planIn,         \* SpecPlan: the inputs of one planResearchSteps call
    planOut,        \* SpecPlan: its outcome, or NoValue before the call
    aggSteps,       \* SpecAgg: mission.steps handed to generateBasicResults
    aggOut,         \* SpecAgg: the ResearchResults it returned, or NoValue
    searchClient,   \* ResearchPipeline.searchClient: TRUE iff initialised
    mission,        \* the ResearchMission being executed
    pc,             \* position of executeResearchPlan
    idx,            \* loop variable i of executeResearchPlan (1-based)
    context,        \* local variable context of executeResearchPlan
    basicPending,   \* value of the promise returned by generateBasicResults
    jobs,           \* promise job (microtask) queue
    llm,            \* the generateComprehensiveAnalysis call: none/inflight/settled
    llmFailed,      \* whether that call was rejected
    gcsa,           \* position of generateComprehensiveSummaryAsync
    onMissionUpdate,\* the callback argument: none, returns or throws
    updateCalls,    \* log of onMissionUpdate invocations
    stepCalls,      \* log of onStepComplete invocations
    callerView,     \* what the awaiting caller saw when it resumed
    inputSteps,     \* mission.steps as passed to executeResearchPlan
    searchFailed,   \* indices of the steps whose searchWithRetry was rejected
    now,            \* logical clock behind new Date()
    retry,          \* SpecRetry: one call of searchWithRetry
    limiter,        \* SpecLimiter: a RateLimiter and its sequential caller
    state,          \* SpecAgent: ResearchAgent.state
    missions,       \* SpecAgent: ResearchAgent.missions
    invocations,    \* SpecAgent: the startResearch invocations made so far
    history,        \* SpecAgent: the status changes made by the last call that set a status
    clientBuilt,    \* SpecAgent: whether createOpenAISearchClient() succeeded
    flags,          \* SpecOverlap: isProcessing and currentMission of ResearchAgent.state
    target,         \* SpecOverlap: the one ResearchMission object, steps held by reference
    heap,           \* SpecOverlap: the ResearchStep objects created so far
    runs,           \* SpecOverlap: the locals of each startResearch invocation
    pureCall        \* SpecQuery, SpecScore: one call of an adapter method, arguments and result

vars == <<planIn, planOut, aggSteps, aggOut, searchClient, mission, pc, idx,
          context, basicPending, jobs, llm, llmFailed, gcsa, onMissionUpdate,
          updateCalls, stepCalls, callerView, inputSteps, searchFailed, now,
          retry, limiter, state, missions, invocations, history, clientBuilt,
          flags, target, heap, runs, pureCall>>

planVars == <<planIn, planOut>>
aggVars == <<aggSteps, aggOut>>
runVars == <<searchClient, mission, pc, idx, context, basicPending, jobs, llm,
             llmFailed, gcsa, onMissionUpdate, updateCalls, stepCalls,
             callerView, inputSteps, searchFailed, now>>

agentVars == <<state, missions, invocations, history, clientBuilt>>
overlapVars == <<flags, target, heap, runs>>
laterVars == <<retry, limiter, agentVars, overlapVars, pureCall>>

\* An optional value (undefined in the code) is the empty sequence, a present
\* value v the one-element sequence <<v>>.
NoValue == <<>>
Some(v) == <<v>>
IsSet(o) == o # <<>>
Get(o) == o[1]

(***************************************************************************)
(* Bounds of the model.                                                    *)
(***************************************************************************)
MaxPlanLen == 3     \* longest array the LLM returns in SpecPlan
MaxRetryArg == 3    \* largest maxRetries argument tried in SpecRetry
maxRequests == 2    \* SpecLimiter: the limiter's maxRequests
timeWindow == 3     \* SpecLimiter: the limiter's timeWindow, in clock ticks
MaxClock == 8       \* SpecLimiter: last clock tick
MaxStarts == 2      \* SpecAgent: invocations of startResearch admitted
MaxCalls == 5       \* SpecLimiter: calls of waitIfNeeded() made
MaxSteps == 2       \* longest LLM-planned step list executed in Spec
MaxAggSteps == 3    \* longest step list aggregated in SpecAgg

Topics == {"electric vehicles vs gasoline cars", "quantum computing"}

Min(a, b) == IF a < b THEN a ELSE b

RECURSIVE SumSeq(_)
SumSeq(s) == IF s = <<>> THEN 0 ELSE Head(s) + SumSeq(Tail(s))

Range(s) == {s[k] : k \in 1..Len(s)}

\* String.prototype.includes on token texts
Contains(text, tok) == \E k \in 1..Len(text) : text[k] = tok

\* String.prototype.replace(pattern: string, replacement): first occurrence only
ReplaceFirst(text, tok, by) ==
    IF ~Contains(text, tok) THEN text
    ELSE LET p == CHOOSE k \in 1..Len(text) :
                      /\ text[k] = tok
                      /\ \A j \in 1..(k-1) : text[j] # tok
         IN [k \in 1..Len(text) |-> IF k = p THEN by ELSE text[k]]

(***************************************************************************)
(* OpenAISearchClient.generateResearchSteps                                *)
(***************************************************************************)
\* An element of the JSON array the LLM is asked for; "" is an absent field.
AiStep(t, d, p, e) == [title |-> t, description |-> d, priority |-> p, estimatedDuration |-> e]

AiElements ==
    { AiStep("Market sizing", "Estimate the market size", "high", "1 hour"),
      AiStep("Expert review", "Collect expert reviews", "low", "30 minutes"),
      AiStep("", "No title given", "medium", "1 hour"),
      AiStep("Adoption", "Adoption rates", "medium", "") }

RECURSIVE SeqsUpTo(_, _)
SeqsUpTo(S, n) ==
    IF n = 0 THEN {<<>>}
    ELSE LET shorter == SeqsUpTo(S, n - 1)
         IN shorter \cup {Append(s, x) : s \in {t \in shorter : Len(t) = n - 1}, x \in S}

\* What the completion's text holds between any wrapping: JSON of an array,
\* JSON of a non-array, or text that is no JSON at all.
JsonBodies ==
    {[kind |-> "garbage", elems |-> <<>>], [kind |-> "object", elems |-> <<>>]}
    \cup {[kind |-> "array", elems |-> es] : es \in SeqsUpTo(AiElements, MaxPlanLen)}

\* The completion: the create() call rejects, or returns a message whose text
\* is the body, optionally inside a ``` fence, optionally after leading prose
\* (which may itself hold a bracket).
Completions ==
    {[ok |-> FALSE, lead |-> "none", fence |-> FALSE, body |-> [kind |-> "garbage", elems |-> <<>>]]}
    \cup {[ok |-> TRUE, lead |-> l, fence |-> f, body |-> b] :
            l \in {"none", "prose", "bracketed prose"}, f \in BOOLEAN, b \in JsonBodies}

\* The text handed to JSON.parse. A fence match keeps only what is inside the
\* fence; otherwise the text is cut from its first [ or { to its last ] or },
\* which keeps leading prose when that prose holds the first bracket.
CleanResponse(c) ==
    IF c.fence THEN [lead |-> "none", body |-> c.body]
    ELSE IF c.body.kind = "garbage" THEN [lead |-> c.lead, body |-> c.body]
    ELSE IF c.lead = "bracketed prose" THEN [lead |-> c.lead, body |-> c.body]
    ELSE [lead |-> "none", body |-> c.body]

\* JSON.parse: anything but the bare JSON body is a SyntaxError
JsonParse(cleaned) ==
    IF cleaned.lead = "none" /\ cleaned.body.kind # "garbage"
    THEN [ok |-> TRUE, value |-> cleaned.body]
    ELSE [ok |-> FALSE, value |-> cleaned.body]

StepHasRequiredFields(e) ==
    /\ e.title # ""
    /\ e.description # ""
    /\ e.priority # ""
    /\ e.estimatedDuration # ""

\* an adapter that drops the elements lacking a field instead of rejecting the array
GenerateResearchStepsSkipInvalid(c) ==
    IF ~c.ok
    THEN [ok |-> FALSE, steps |-> <<>>,
          error |-> <<"Failed to generate research steps: ", "provider error">>]
    ELSE LET parsed == JsonParse(CleanResponse(c)) IN
         IF ~parsed.ok \/ parsed.value.kind # "array"
         THEN [ok |-> FALSE, steps |-> <<>>,
               error |-> <<"Failed to generate research steps: ",
                           "Failed to parse research steps from AI response: ", "SyntaxError">>]
         ELSE [ok |-> TRUE, steps |-> SelectSeq(parsed.value.elems, StepHasRequiredFields),
               error |-> <<>>]

\* [ok, steps, error]: the resolved array, or the message of the Error thrown
GenerateResearchSteps(c) ==
    IF ~c.ok
    THEN [ok |-> FALSE, steps |-> <<>>,
          error |-> <<"Failed to generate research steps: ", "provider error">>]
    ELSE LET parsed == JsonParse(CleanResponse(c)) IN
         IF ~parsed.ok
         THEN [ok |-> FALSE, steps |-> <<>>,
               error |-> <<"Failed to generate research steps: ",
                           "Failed to parse research steps from AI response: ", "SyntaxError">>]
         ELSE IF parsed.value.kind # "array"
         THEN [ok |-> FALSE, steps |-> <<>>,
               error |-> <<"Failed to generate research steps: ",
                           "Failed to parse research steps from AI response: ",
                           "Response is not an array">>]
         ELSE IF \E k \in 1..Len(parsed.value.elems) : ~StepHasRequiredFields(parsed.value.elems[k])
         THEN [ok |-> FALSE, steps |-> <<>>,
               error |-> <<"Failed to generate research steps: ",
                           "Failed to parse research steps from AI response: ",
                           "Step missing required fields">>]
         ELSE [ok |-> TRUE, steps |-> parsed.value.elems, error |-> <<>>]

(***************************************************************************)
(* ResearchPipeline.planResearchSteps                                      *)
(***************************************************************************)
\* generateId is random; ids are taken distinct, one per position
createStep(title, description, priority, order) ==
    [id |-> order + 1, title |-> title, description |-> description,
     status |-> "pending", priority |-> priority, order |-> order,
     query |-> NoValue, results |-> NoValue, error |-> NoValue,
     startedAt |-> NoValue, completedAt |-> NoValue]

createFallbackSteps(topic) ==
    << createStep("Foundation Research", <<"Research", "basic information and overview of", topic>>, "high", 0),
       createStep("Detailed Analysis", <<"Conduct detailed analysis of key aspects">>, "high", 1),
       createStep("Current Status", <<"Research", "current status and recent developments">>, "medium", 2),
       createStep("Expert Insights", <<"Gather expert opinions and insights">>, "medium", 3),
       createStep("Summary & Validation", <<"Validate findings and create summary">>, "high", 4) >>

\* A planner that trusts whatever array the adapter resolved with
planResearchStepsNoEmptyCheck(clientReady, completion, topic) ==
    LET gen == GenerateResearchSteps(completion) IN
    IF clientReady /\ gen.ok
    THEN [raised |-> FALSE, fallback |-> FALSE,
          steps |-> [k \in 1..Len(gen.steps) |->
                       createStep(gen.steps[k].title, <<gen.steps[k].description>>,
                                  gen.steps[k].priority, k - 1)]]
    ELSE [raised |-> FALSE, fallback |-> TRUE, steps |-> createFallbackSteps(topic)]

\* A planner whose fallback covers a failed call but not a rejected array
planResearchStepsNarrowCatch(clientReady, completion, topic) ==
    LET gen == GenerateResearchSteps(completion) IN
    IF ~clientReady \/ ~completion.ok
    THEN [raised |-> FALSE, fallback |-> TRUE, steps |-> createFallbackSteps(topic)]
    ELSE IF ~gen.ok \/ Len(gen.steps) = 0
    THEN [raised |-> TRUE, fallback |-> FALSE, steps |-> <<>>]
    ELSE [raised |-> FALSE, fallback |-> FALSE,
          steps |-> [k \in 1..Len(gen.steps) |->
                       createStep(gen.steps[k].title, <<gen.steps[k].description>>,
                                  gen.steps[k].priority, k - 1)]]

\* [raised, fallback, steps]: raised is whether the returned promise rejects
planResearchSteps(clientReady, completion, topic) ==
    LET gen == GenerateResearchSteps(completion) IN
    IF ~clientReady THEN
        [raised |-> FALSE, fallback |-> TRUE, steps |-> createFallbackSteps(topic)]
    ELSE IF ~gen.ok THEN
        [raised |-> FALSE, fallback |-> TRUE, steps |-> createFallbackSteps(topic)]
    ELSE IF Len(gen.steps) = 0 THEN
        [raised |-> FALSE, fallback |-> TRUE, steps |-> createFallbackSteps(topic)]
    ELSE
        [raised |-> FALSE, fallback |-> FALSE,
         steps |-> [k \in 1..Len(gen.steps) |->
                      createStep(gen.steps[k].title, <<gen.steps[k].description>>,
                                 gen.steps[k].priority, k - 1)]]

(***************************************************************************)
(* OpenAISearchClient.search / searchWithRetry / optimizeQuery             *)
(***************************************************************************)
\* A content string is the sequence of its sentences (what split('. ') yields),
\* each with its text and its length in characters.
Sentence(t, n) == [text |-> t, len |-> n]

ContentShort == << Sentence("Brief remark", 40) >>
ContentLong  == << Sentence("Intro", 30), Sentence("EV sales grew strongly", 120) >>
ContentWide  == << Sentence("Wall of text", 250) >>

\* content.length: the sentences and the ". " separators between them
ContentLen(c) == IF c = <<>> THEN 0 ELSE SumSeq([k \in 1..Len(c) |-> c[k].len]) + 2 * (Len(c) - 1)

\* content.substring(0, 200): whole sentences and separators that fit, then a cut one
RECURSIVE Substring(_, _)
Substring(c, n) ==
    IF c = <<>> \/ n <= 0 THEN <<>>
    ELSE IF Head(c).len >= n THEN << Sentence(Head(c).text, n) >>
    ELSE IF Len(c) = 1 THEN c
    ELSE IF Head(c).len + 2 >= n THEN << Head(c) >>
    ELSE << Head(c) >> \o Substring(Tail(c), n - Head(c).len - 2)

\* A url_citation annotation of the completion; "" is an absent title or url
Annotation(t, u, c) == [type |-> "url_citation", title |-> t, url |-> u, content |-> c]

\* an annotation of another type
OtherAnnotation == [type |-> "file_citation", title |-> "", url |-> "", content |-> <<>>]

\* One attempt of the provider call made by search()
AttemptOk(anns) == [ok |-> TRUE, annotations |-> anns, message |-> ""]
AttemptFail(msg) == [ok |-> FALSE, annotations |-> <<>>, message |-> msg]

\* search(): [ok, sources, error]; scores are in tenths (1.0 - index * 0.1)
Search(attempt) ==
    IF attempt.ok
    THEN LET cited == SelectSeq(attempt.annotations, LAMBDA a : a.type = "url_citation") IN
         [ok |-> TRUE,
          sources |-> [k \in 1..Len(cited) |->
              [title |-> IF cited[k].title = ""
                         THEN <<"Source ", ToString(k)>>
                         ELSE <<cited[k].title>>,
               url |-> cited[k].url,
               content |-> cited[k].content,
               score |-> 10 - (k - 1)]],
          error |-> <<>>]
    ELSE [ok |-> FALSE, sources |-> <<>>, error |-> <<"Failed to search: ", attempt.message>>]

maxRetries == 3

\* searchWithRetry over the outcomes of the attempts it makes, in order
RECURSIVE SearchWithRetryFrom(_, _)
SearchWithRetryFrom(attempts, attempt) ==
    LET r == Search(attempts[attempt]) IN
    IF r.ok THEN r
    ELSE IF attempt = maxRetries \/ attempt = Len(attempts) THEN r
    ELSE SearchWithRetryFrom(attempts, attempt + 1)

searchWithRetry(attempts) == SearchWithRetryFrom(attempts, 1)

\* The attempt sequences searchWithRetry can draw: failures, then a success
\* or the last failure at attempt maxRetries
AttemptRuns(okSet, failSet) ==
    {s \in SeqsUpTo(okSet \cup failSet, maxRetries) :
        /\ Len(s) >= 1
        /\ \A k \in 1..(Len(s) - 1) : ~s[k].ok
        /\ (s[Len(s)].ok \/ Len(s) = maxRetries)}

FillerWords == {"how to", "what is", "explain", "research", "find", "about"}

\* A text is a sequence of tokens. Neighbouring tokens stand one space apart;
\* the token WideGap stands for a longer run of whitespace at its place.
WideGap == "  "

\* toLowerCase of the tokens that occur capitalised in step descriptions
Lower(tok) ==
    IF tok = "Research" THEN "research" ELSE IF tok = "How" THEN "how" ELSE tok

\* length in characters of a token, as far as the minimum-length test needs it
TokenLen(tok) ==
    IF tok \in {"Research", "research"} THEN 8
    ELSE IF tok \in {"How", "how"} THEN 3
    ELSE IF tok \in {"to", "is", "EV", WideGap} THEN 2
    ELSE IF tok = "what" THEN 4
    ELSE 10

\* the alternative of the regex that two words one space apart spell, if any
TwoWords(a, b) ==
    IF Lower(a) = "how" /\ Lower(b) = "to" THEN "how to"
    ELSE IF Lower(a) = "what" /\ Lower(b) = "is" THEN "what is"
    ELSE "none"

\* replace(/\b(how to|what is|explain|research|find|about)\b/gi, ''): one pass
\* from the left, a match is dropped and the scan goes on behind it
RECURSIVE StripFillers(_)
StripFillers(q) ==
    IF q = <<>> THEN <<>>
    ELSE IF Len(q) >= 2 /\ TwoWords(q[1], q[2]) \in FillerWords THEN StripFillers(SubSeq(q, 3, Len(q)))
    ELSE IF Lower(q[1]) \in FillerWords THEN StripFillers(Tail(q))
    ELSE <<q[1]>> \o StripFillers(Tail(q))

\* replace(/\s+/g, ' ').trim(): every run of whitespace is one space, none at the ends
CollapseSpaces(q) == SelectSeq(q, LAMBDA tok : tok # WideGap)

\* query.length
QueryLen(q) == IF q = <<>> THEN 0 ELSE SumSeq([k \in 1..Len(q) |-> TokenLen(q[k])]) + (Len(q) - 1)

\* optimizeQuery before its minimum-length test
CleanedQuery(step, ctx) == CollapseSpaces(StripFillers(IF ctx # <<>> THEN step \o ctx ELSE step))

\* optimizeQuery(step, context): filler words removed, short result replaced
optimizeQuery(step, ctx) ==
    LET cleaned == CleanedQuery(step, ctx)
    IN IF QueryLen(cleaned) < 3 THEN step ELSE cleaned

processResults(response) == response.sources

(***************************************************************************)
(* ResearchPipeline: result synthesis, fast phase                          *)
(***************************************************************************)
SourceCap == 20

StepResults(step) == IF IsSet(step.results) THEN Get(step.results) ELSE <<>>

\* a count of the steps that brought results, instead of the completed steps
CompletedCountWithResults(steps) ==
    Cardinality({k \in 1..Len(steps) : steps[k].status = "completed" /\ Len(StepResults(steps[k])) > 0})

CompletedCount(steps) == Cardinality({k \in 1..Len(steps) : steps[k].status = "completed"})

\* the text a content string contributes to the context: its token names
ContentText(c) == [k \in 1..Len(c) |-> c[k].text]

RECURSIVE Flatten(_)
Flatten(ss) == IF ss = <<>> THEN <<>> ELSE Head(ss) \o Flatten(Tail(ss))

\* a digest of every result of the step, each taken whole
summarizeStepResultsWhole(step) ==
    LET rs == StepResults(step)
    IN Flatten([k \in 1..Len(rs) |-> ContentText(rs[k].content)])

\* summarizeStepResults: first 3 results, each cut to 200 characters
summarizeStepResults(step) ==
    LET rs == StepResults(step)
        top == SubSeq(rs, 1, Min(3, Len(rs)))
    IN Flatten([k \in 1..Len(top) |-> ContentText(Substring(top[k].content, 200))])

\* results.filter with the seen-set: keeps a result iff its url was not seen before
RECURSIVE DedupFrom(_, _)
DedupFrom(results, seen) ==
    IF results = <<>> THEN <<>>
    ELSE IF Head(results).url \in seen THEN DedupFrom(Tail(results), seen)
    ELSE << Head(results) >> \o DedupFrom(Tail(results), seen \cup {Head(results).url})

\* a filter that keeps the last copy of each url instead of the first
removeDuplicateResultsKeepLast(results) ==
    LET kept == SelectSeq([k \in 1..Len(results) |->
                             [r |-> results[k],
                              last |-> \A j \in (k+1)..Len(results) : results[j].url # results[k].url]],
                          LAMBDA x : x.last)
    IN [k \in 1..Len(kept) |-> kept[k].r]

removeDuplicateResults(results) == DedupFrom(results, {})

\* allResults.push(...step.results) over the steps in order
AllResults(steps) == Flatten([k \in 1..Len(steps) |-> StepResults(steps[k])])

\* a find that takes sentences of 50 and of 200 characters too
MeaningfulSentenceInclusive(content) ==
    LET hits == {k \in 1..Len(content) : content[k].len >= 50 /\ content[k].len <= 200}
    IN IF hits = {} THEN NoValue
       ELSE Some(content[CHOOSE k \in hits : \A j \in hits : k <= j])

\* sentences.find(s => s.length > 50 && s.length < 200)
MeaningfulSentence(content) ==
    LET hits == {k \in 1..Len(content) : content[k].len > 50 /\ content[k].len < 200}
    IN IF hits = {} THEN NoValue
       ELSE Some(content[CHOOSE k \in hits : \A j \in hits : k <= j])

StepFinding(step) ==
    IF step.status = "completed" /\ IsSet(step.results) /\ Len(StepResults(step)) > 0
       /\ StepResults(step)[1].content # <<>>
       /\ IsSet(MeaningfulSentence(StepResults(step)[1].content))
    THEN << <<step.title, ": ", Get(MeaningfulSentence(StepResults(step)[1].content)).text>> >>
    ELSE <<>>

extractKeyFindings(steps) == Flatten([k \in 1..Len(steps) |-> StepFinding(steps[k])])

Trailer == "Generating comprehensive analysis..."
FailureNotice == "Comprehensive analysis failed to generate. Using basic summary."

\* the part of the summary shared by generateBasicSummary and generateSummary's catch
SummaryHead(m, keyFindings) ==
    << "Research completed on: ", m.title, "\n\n",
       "Successfully completed ", ToString(CompletedCount(m.steps)), " of ",
       ToString(Len(m.steps)), " research steps.\n\n" >>
    \o (IF Len(keyFindings) > 0
        THEN << "Key findings include:\n" >>
             \o Flatten([k \in 1..Len(keyFindings) |->
                           << ToString(k), ". " >> \o keyFindings[k] \o << "\n" >>])
        ELSE <<>>)

generateBasicSummary(m, keyFindings) == SummaryHead(m, keyFindings) \o << "\n", Trailer >>

TrendTitles == {"Current Trends", "Market Size & Trends"}

generateRecommendations(steps) ==
    LET done == {k \in 1..Len(steps) : steps[k].status = "completed"} IN
    IF done = {} THEN <<>>
    ELSE << "Review the comprehensive research findings above",
            "Cross-reference multiple sources for validation" >>
         \o (IF Cardinality(done) >= 3
             THEN << "Consider the expert opinions and case studies identified" >> ELSE <<>>)
         \o (IF \E k \in done : steps[k].title \in TrendTitles
             THEN << "Monitor ongoing trends and developments in this area" >> ELSE <<>>)

\* the fast phase without the slice(0, 20)
generateBasicResultsUncapped(m) ==
    LET uniqueResults == removeDuplicateResults(AllResults(m.steps))
        keyFindings == extractKeyFindings(m.steps)
    IN [summary |-> generateBasicSummary(m, keyFindings),
        keyFindings |-> keyFindings,
        sources |-> uniqueResults,
        recommendations |-> generateRecommendations(m.steps),
        completedSteps |-> CompletedCount(m.steps),
        totalSteps |-> Len(m.steps),
        isGeneratingComprehensiveAnalysis |-> TRUE]

generateBasicResults(m) ==
    LET uniqueResults == removeDuplicateResults(AllResults(m.steps))
        keyFindings == extractKeyFindings(m.steps)
    IN [summary |-> generateBasicSummary(m, keyFindings),
        keyFindings |-> keyFindings,
        sources |-> SubSeq(uniqueResults, 1, Min(SourceCap, Len(uniqueResults))),
        recommendations |-> generateRecommendations(m.steps),
        completedSteps |-> CompletedCount(m.steps),
        totalSteps |-> Len(m.steps),
        isGeneratingComprehensiveAnalysis |-> TRUE]

(***************************************************************************)
(* ResearchPipeline: comprehensive phase                                   *)
(***************************************************************************)
\* a collectAllContent that keeps contents of 100 characters too
collectAllContentFromHundred(steps) ==
    Flatten([k \in 1..Len(steps) |->
        IF steps[k].status = "completed" /\ IsSet(steps[k].results)
        THEN LET rs == StepResults(steps[k]) IN
             Flatten([j \in 1..Len(rs) |->
                 IF rs[j].content # <<>> /\ ContentLen(rs[j].content) >= 100
                 THEN << [step |-> steps[k].title, content |-> rs[j].content, url |-> rs[j].url] >>
                 ELSE <<>>])
        ELSE <<>>])

\* the results that collectAllContent keeps: completed steps, content over 100
collectAllContent(steps) ==
    Flatten([k \in 1..Len(steps) |->
        IF steps[k].status = "completed" /\ IsSet(steps[k].results)
        THEN LET rs == StepResults(steps[k]) IN
             Flatten([j \in 1..Len(rs) |->
                 IF rs[j].content # <<>> /\ ContentLen(rs[j].content) > 100
                 THEN << [step |-> steps[k].title, content |-> rs[j].content, url |-> rs[j].url] >>
                 ELSE <<>>])
        ELSE <<>>])

NoFindingsSummary(m) ==
    << "Research completed on: ", m.title, "\n\n",
       "No significant findings were gathered from the research steps." >>

\* The completion of generateComprehensiveAnalysis: rejected, or text ("" when
\* the message has no content)
LlmOutcomes == { [ok |-> FALSE, text |-> ""], [ok |-> TRUE, text |-> ""],
                 [ok |-> TRUE, text |-> "## Executive Summary ..."] }

\* generateComprehensiveAnalysis: [ok, text]
generateComprehensiveAnalysis(outcome) ==
    IF ~outcome.ok THEN [ok |-> FALSE, text |-> <<"Failed to generate comprehensive analysis">>]
    ELSE IF outcome.text = "" THEN [ok |-> TRUE, text |-> <<"No analysis generated">>]
    ELSE [ok |-> TRUE, text |-> <<outcome.text>>]

\* what generateSummary resolves with once the LLM call has settled
generateSummarySettled(m, keyFindings, outcome) ==
    LET r == generateComprehensiveAnalysis(outcome) IN
    IF r.ok THEN r.text ELSE SummaryHead(m, keyFindings)

(***************************************************************************)
(* SpecPlan: one call of planResearchSteps for every provider outcome      *)
(***************************************************************************)
PlanIdle == planIn = NoValue /\ planOut = NoValue
AggIdle == aggSteps = <<>> /\ aggOut = NoValue
RunIdle ==
    /\ searchClient = FALSE /\ mission = NoValue /\ pc = "idle" /\ idx = 0
    /\ context = <<>> /\ basicPending = NoValue /\ jobs = <<>> /\ llm = "none"
    /\ llmFailed = FALSE /\ gcsa = "notStarted" /\ onMissionUpdate = "none"
    /\ updateCalls = <<>> /\ stepCalls = <<>> /\ callerView = NoValue
    /\ inputSteps = <<>> /\ searchFailed = {} /\ now = 0

RetryIdle == retry = NoValue
LimiterIdle == limiter = NoValue
AgentIdle ==
    /\ state = NoValue /\ missions = NoValue /\ invocations = <<>>
    /\ history = NoValue /\ clientBuilt = FALSE
OverlapIdle == flags = NoValue /\ target = NoValue /\ heap = <<>> /\ runs = <<>>
PureIdle == pureCall = NoValue
LaterIdle == RetryIdle /\ LimiterIdle /\ AgentIdle /\ OverlapIdle /\ PureIdle

InitPlan ==
    /\ planIn \in {Some(i) : i \in [clientReady : BOOLEAN, completion : Completions, topic : Topics]}
    /\ planOut = NoValue
    /\ AggIdle /\ RunIdle /\ LaterIdle

PlanCall ==
    /\ IsSet(planIn) /\ ~IsSet(planOut)
    /\ planOut' = Some(planResearchSteps(Get(planIn).clientReady, Get(planIn).completion, Get(planIn).topic))
    /\ UNCHANGED <<planIn, aggVars, runVars, laterVars>>

NextPlan == PlanCall

SpecPlan == InitPlan /\ [][NextPlan]_vars

(***************************************************************************)
(* SpecAgg: generateBasicResults over step lists as executeStep leaves them*)
(***************************************************************************)
Url(n) == ToString(n)

\* n citations of consecutive urls, all quoting the same stretch of the answer
CiteRange(base, n, c) == [k \in 1..n |-> Annotation("", Url(base + k - 1), c)]

HeavyAnnotations ==
    { <<>>,
      CiteRange(0, 8, ContentLong),
      CiteRange(6, 8, ContentShort),
      CiteRange(14, 8, ContentWide),
      CiteRange(3, 2, ContentWide),
      << Annotation("Untitled A", "", ContentShort), Annotation("Untitled B", "", ContentLong) >>,
      \* sentences of exactly 50 and exactly 200 characters before one of 199
      << Annotation("Edge", "https://e.example/edge",
                    << Sentence("Fifty characters", 50), Sentence("Two hundred characters", 200),
                       Sentence("Inside the bounds", 199) >>) >> }

\* a step of title t as executeStep leaves it: completed with the sources of a
\* search, or in error with no results
ExecutedStep(t, order, outcome) ==
    IF outcome.ok
    THEN [createStep(t, <<t>>, "high", order) EXCEPT
            !.status = "completed", !.results = Some(processResults(outcome)),
            !.query = Some(<<t>>), !.startedAt = Some(0), !.completedAt = Some(0)]
    ELSE [createStep(t, <<t>>, "high", order) EXCEPT
            !.status = "error", !.error = Some(outcome.error),
            !.query = Some(<<t>>), !.startedAt = Some(0), !.completedAt = Some(0)]

AggOutcomes == {Search(AttemptOk(a)) : a \in HeavyAnnotations} \cup {Search(AttemptFail("timeout"))}

InitAgg ==
    /\ \E os \in SeqsUpTo(AggOutcomes, MaxAggSteps) :
          aggSteps = [k \in 1..Len(os) |-> ExecutedStep("Current Status", k - 1, os[k])]
    /\ aggOut = NoValue
    /\ PlanIdle /\ RunIdle /\ LaterIdle

Aggregate ==
    /\ ~IsSet(aggOut)
    /\ aggOut' = Some(generateBasicResults([title |-> "EV study", steps |-> aggSteps]))
    /\ UNCHANGED <<aggSteps, planVars, runVars, laterVars>>

NextAgg == Aggregate

SpecAgg == InitAgg /\ [][NextAgg]_vars

(***************************************************************************)
(* Spec: executeResearchPlan(mission, onStepComplete, onMissionUpdate)     *)
(*                                                                         *)
(* Every action is one turn of the event loop or one promise job: the code *)
(* between two awaits. Promise jobs run in queue order and before any      *)
(* provider response is delivered.                                         *)
(***************************************************************************)
LightAnnotations ==
    { <<>>,
      << Annotation("EV outlook", "https://a.example/ev", ContentShort),
         \* a content of exactly 100 characters: 40 + 2 + 40 + 2 + 16
         Annotation("EV brief", "https://c.example/brief",
                    << Sentence("First remark", 40), Sentence("Second remark", 40), Sentence("Coda", 16) >>) >>,
      << Annotation("", "https://b.example/sales", ContentLong) >>,
      CiteRange(3, 4, ContentWide) }

\* The provider's error message is arbitrary text; the empty message is the
\* one that leaves least in the step's error string.
SearchAttempts == {AttemptOk(a) : a \in LightAnnotations} \cup {AttemptFail("")}

MissionTopic == "electric vehicles vs gasoline cars"

\* step lists a planner hands over: the fallback plan, or an LLM plan
PlannedStepLists ==
    {createFallbackSteps(MissionTopic)}
    \cup {planResearchSteps(TRUE, [ok |-> TRUE, lead |-> "none", fence |-> FALSE,
                                   body |-> [kind |-> "array", elems |-> es]], MissionTopic).steps :
            es \in {e \in SeqsUpTo({x \in AiElements : StepHasRequiredFields(x)}, MaxSteps) : Len(e) >= 1}}

Init ==
    /\ searchClient \in BOOLEAN
    /\ \E steps \in PlannedStepLists \cup {<<>>} :
          /\ mission = [title |-> "EV study", description |-> <<MissionTopic>>,
                        status |-> "researching", steps |-> steps,
                        results |-> NoValue, updatedAt |-> 0]
          /\ inputSteps = steps
    /\ onMissionUpdate \in {"none", "given"}
    /\ pc = "start" /\ idx = 0 /\ context = <<>> /\ basicPending = NoValue
    /\ jobs = <<>> /\ llm = "none" /\ llmFailed = FALSE /\ gcsa = "notStarted"
    /\ updateCalls = <<>> /\ stepCalls = <<>> /\ callerView = NoValue
    /\ searchFailed = {} /\ now = 1
    /\ PlanIdle /\ AggIdle /\ LaterIdle

\* executeStep's catch block: the step is marked and the error re-thrown
StepError(step, message, t) ==
    [step EXCEPT !.status = "error", !.error = Some(message), !.completedAt = Some(t)]

\* executeStep up to its first await: [step, raised]
executeStepBegin(step, clientReady, t) ==
    IF ~clientReady
    THEN [step |-> StepError(step, <<"Search client not initialized">>, t), raised |-> TRUE]
    ELSE [step |-> [step EXCEPT !.status = "executing", !.startedAt = Some(t)], raised |-> FALSE]

\* an executeStep whose catch block drops the message
executeStepSettleNoMessage(step, r, t) ==
    IF r.ok
    THEN [step EXCEPT !.results = Some(processResults(r)), !.status = "completed",
                      !.completedAt = Some(t)]
    ELSE [step EXCEPT !.status = "error", !.completedAt = Some(t)]

\* executeStep once searchWithRetry has settled with response r
executeStepSettle(step, r, t) ==
    IF r.ok
    THEN [step EXCEPT !.results = Some(processResults(r)), !.status = "completed",
                      !.completedAt = Some(t)]
    ELSE StepError(step, r.error, t)

\* a runner that gives up on the remaining steps once a step has failed
LoopFromStopOnError(m, i, clientReady, t) ==
    IF i > Len(m.steps) \/ \E k \in 1..Len(m.steps) : m.steps[k].status = "error"
    THEN [mission |-> m, pc |-> "awaitBasic", basic |-> Some(generateBasicResults(m)), raised |-> FALSE]
    ELSE LET b == executeStepBegin(m.steps[i], clientReady, t) IN
         [mission |-> [m EXCEPT !.steps[i] = b.step],
          pc |-> IF b.raised THEN "stepRejected" ELSE "rateLimit",
          basic |-> NoValue, raised |-> b.raised]

\* The loop of executeResearchPlan run from its head at index i until the next
\* await: the await of executeStep, or after the loop the await of
\* generateBasicResults, whose value is computed when it is called.
LoopFrom(m, i, clientReady, t) ==
    IF i > Len(m.steps)
    THEN [mission |-> m, pc |-> "awaitBasic", basic |-> Some(generateBasicResults(m)), raised |-> FALSE]
    ELSE LET b == executeStepBegin(m.steps[i], clientReady, t) IN
         [mission |-> [m EXCEPT !.steps[i] = b.step],
          pc |-> IF b.raised THEN "stepRejected" ELSE "rateLimit",
          basic |-> NoValue, raised |-> b.raised]

\* a runner that removes the failed step from the plan
AfterStepFailureDropped(steps, i) == [k \in 1..(Len(steps) - 1) |-> IF k < i THEN steps[k] ELSE steps[k + 1]]

\* what the runner's catch leaves of the step list after step i failed
AfterStepFailure(steps, i) == steps

Advance(next) ==
    /\ mission' = next.mission
    /\ pc' = next.pc
    /\ basicPending' = next.basic

\* the call itself: context is seeded and the loop entered
Call ==
    /\ pc = "start"
    /\ context' = mission.description
    /\ idx' = 1
    /\ Advance(LoopFrom(mission, 1, searchClient, now))
    /\ searchFailed' = IF LoopFrom(mission, 1, searchClient, now).raised THEN {1} ELSE {}
    /\ now' = now + 1
    /\ UNCHANGED <<laterVars, planVars, aggVars, searchClient, jobs, llm, llmFailed, gcsa,
                   onMissionUpdate, updateCalls, stepCalls, callerView, inputSteps>>

\* executeStep threw before its first await; the runner's catch logs and goes on
StepRejected ==
    /\ pc = "stepRejected"
    /\ LET m == [mission EXCEPT !.steps = AfterStepFailure(mission.steps, idx)]
           next == LoopFrom(m, idx + 1, searchClient, now) IN
       /\ Advance(next)
       /\ searchFailed' = IF next.raised THEN searchFailed \cup {idx + 1} ELSE searchFailed
    /\ idx' = idx + 1
    /\ now' = now + 1
    /\ UNCHANGED <<laterVars, planVars, aggVars, searchClient, context, jobs, llm, llmFailed, gcsa,
                   onMissionUpdate, updateCalls, stepCalls, callerView, inputSteps>>

\* rateLimiter.waitIfNeeded() has resolved: the query is built and the search issued
IssueSearch ==
    /\ pc = "rateLimit"
    /\ mission' = [mission EXCEPT !.steps[idx].query =
                                        Some(optimizeQuery(mission.steps[idx].description, context))]
    /\ pc' = "searching"
    /\ now' = now + 1
    /\ UNCHANGED <<laterVars, planVars, aggVars, searchClient, idx, context, basicPending, jobs, llm,
                   llmFailed, gcsa, onMissionUpdate, updateCalls, stepCalls, callerView,
                   inputSteps, searchFailed>>

\* searchWithRetry has settled: the rest of executeStep, the rest of the loop
\* body, and the loop up to its next await
SettleStep(attempts) ==
    /\ pc = "searching"
    /\ LET r == searchWithRetry(attempts)
           step == executeStepSettle(mission.steps[idx], r, now)
           m == [mission EXCEPT !.steps[idx] = step]
           mc == IF r.ok THEN m ELSE [m EXCEPT !.steps = AfterStepFailure(m.steps, idx)]
           next == LoopFrom(mc, idx + 1, searchClient, now)
       IN /\ Advance(next)
          /\ context' = IF r.ok /\ Len(StepResults(step)) > 0
                        THEN context \o summarizeStepResults(step) ELSE context
          /\ stepCalls' = IF r.ok
                          THEN Append(stepCalls, [step |-> step.id, num |-> idx * 100,
                                                  den |-> Len(mission.steps)])
                          ELSE stepCalls
          /\ searchFailed' = IF r.ok THEN searchFailed ELSE searchFailed \cup {idx}
    /\ idx' = idx + 1
    /\ now' = now + 1
    /\ UNCHANGED <<laterVars, planVars, aggVars, searchClient, jobs, llm, llmFailed, gcsa,
                   onMissionUpdate, updateCalls, callerView, inputSteps>>

\* generateSummary up to its first await or its return: the promise job it
\* leaves behind, if it resolved at once
generateSummaryBegin(m, clientReady) ==
    IF Len(collectAllContent(m.steps)) = 0
    THEN [inflight |-> FALSE, summary |-> NoFindingsSummary(m)]
    ELSE IF ~clientReady
    THEN [inflight |-> FALSE, summary |-> SummaryHead(m, extractKeyFindings(m.steps))]
    ELSE [inflight |-> TRUE, summary |-> <<>>]

\* The jobs queued by the tail of executeResearchPlan, in order: the
\* continuation of generateComprehensiveSummaryAsync when generateSummary
\* resolved without awaiting, then the continuation of the awaiting caller.
TailJobs(begun) ==
    (IF begun.inflight THEN <<>> ELSE << [kind |-> "gcsaResume", summary |-> begun.summary] >>)
    \o << [kind |-> "callerResume", summary |-> <<>>] >>

\* the await of generateBasicResults resumes: results, status, the background
\* phase is started and the mission returned
Finish ==
    /\ pc = "awaitBasic"
    /\ LET m == [mission EXCEPT !.results = basicPending, !.status = "completed",
                                !.updatedAt = now]
           begun == generateSummaryBegin(m, searchClient)
       IN /\ mission' = m
          /\ jobs' = jobs \o TailJobs(begun)
          /\ llm' = IF begun.inflight THEN "inflight" ELSE "none"
    /\ gcsa' = "awaiting"
    /\ pc' = "returned"
    /\ basicPending' = NoValue
    /\ now' = now + 1
    /\ UNCHANGED <<laterVars, planVars, aggVars, searchClient, idx, context, llmFailed,
                   onMissionUpdate, updateCalls, stepCalls, callerView, inputSteps,
                   searchFailed>>

\* the provider answers generateComprehensiveAnalysis; generateSummary resolves
LlmSettles(outcome) ==
    /\ llm = "inflight" /\ jobs = <<>>
    /\ llm' = "settled"
    /\ llmFailed' = ~outcome.ok
    /\ jobs' = << [kind |-> "gcsaResume",
                   summary |-> generateSummarySettled(mission, extractKeyFindings(mission.steps), outcome)] >>
    /\ now' = now + 1
    /\ UNCHANGED <<laterVars, planVars, aggVars, searchClient, mission, pc, idx, context, basicPending,
                   gcsa, onMissionUpdate, updateCalls, stepCalls, callerView, inputSteps,
                   searchFailed>>

\* the caller's await of executeResearchPlan resumes and looks at the mission
CallerResumes ==
    /\ jobs # <<>> /\ Head(jobs).kind = "callerResume"
    /\ callerView' = Some([flag |-> Get(mission.results).isGeneratingComprehensiveAnalysis,
                           status |-> mission.status,
                           summary |-> Get(mission.results).summary])
    /\ jobs' = Tail(jobs)
    /\ now' = now + 1
    /\ UNCHANGED <<laterVars, planVars, aggVars, searchClient, mission, pc, idx, context, basicPending,
                   llm, llmFailed, gcsa, onMissionUpdate, updateCalls, stepCalls,
                   inputSteps, searchFailed>>

\* a try block that forgets the flag
gcsaTryKeepsFlag(m, summary, t) ==
    IF IsSet(m.results)
    THEN [m EXCEPT !.results[1].summary = summary, !.updatedAt = t]
    ELSE m

\* the try block of generateComprehensiveSummaryAsync after its await
gcsaTry(m, summary, t) ==
    IF IsSet(m.results)
    THEN [m EXCEPT !.results[1].summary = summary,
                   !.results[1].isGeneratingComprehensiveAnalysis = FALSE,
                   !.updatedAt = t]
    ELSE m

\* a catch block that also marks the mission as failed
gcsaCatchSetsError(m, t) ==
    IF IsSet(m.results)
    THEN [m EXCEPT !.results[1].summary = ReplaceFirst(Get(m.results).summary, Trailer, FailureNotice),
                   !.results[1].isGeneratingComprehensiveAnalysis = FALSE,
                   !.status = "error", !.updatedAt = t]
    ELSE m

\* its catch block
gcsaCatch(m, t) ==
    IF IsSet(m.results)
    THEN [m EXCEPT !.results[1].summary = ReplaceFirst(Get(m.results).summary, Trailer, FailureNotice),
                   !.results[1].isGeneratingComprehensiveAnalysis = FALSE,
                   !.updatedAt = t]
    ELSE m

\* one invocation of onMissionUpdate(mission): where it was made, when, and
\* what the mission passed to it showed
UpdateCall(m, where, t) ==
    [flag |-> IF IsSet(m.results) THEN Get(m.results).isGeneratingComprehensiveAnalysis ELSE TRUE,
     updatedAt |-> m.updatedAt, time |-> t, at |-> where]

\* generateComprehensiveSummaryAsync resumes with the summary. behaviour is
\* what the callback does when invoked: it returns, or throws on its first
\* invocation only, or throws every time.
GcsaResumes(behaviour) ==
    /\ jobs # <<>> /\ Head(jobs).kind = "gcsaResume"
    /\ onMissionUpdate = "none" => behaviour = "returns"
    /\ LET m1 == gcsaTry(mission, Head(jobs).summary, now)
           m2 == gcsaCatch(m1, now)
       IN IF onMissionUpdate = "none"
          THEN /\ mission' = m1 /\ updateCalls' = updateCalls /\ gcsa' = "resolved"
          ELSE IF behaviour = "returns"
          THEN /\ mission' = m1
               /\ updateCalls' = Append(updateCalls, UpdateCall(m1, "try", now))
               /\ gcsa' = "resolved"
          ELSE /\ mission' = m2
               /\ updateCalls' = updateCalls \o << UpdateCall(m1, "try", now), UpdateCall(m2, "catch", now) >>
               /\ gcsa' = IF behaviour = "throwsOnce" THEN "resolved" ELSE "rejected"
    /\ jobs' = Tail(jobs)
    /\ now' = now + 1
    /\ UNCHANGED <<laterVars, planVars, aggVars, searchClient, pc, idx, context, basicPending, llm,
                   llmFailed, onMissionUpdate, stepCalls, callerView, inputSteps,
                   searchFailed>>

Next ==
    \/ Call
    \/ StepRejected
    \/ IssueSearch
    \/ \E attempts \in AttemptRuns({a \in SearchAttempts : a.ok}, {a \in SearchAttempts : ~a.ok}) :
          SettleStep(attempts)
    \/ Finish
    \/ \E outcome \in LlmOutcomes : LlmSettles(outcome)
    \/ CallerResumes
    \/ \E behaviour \in {"returns", "throwsOnce", "throws"} : GcsaResumes(behaviour)

Spec == Init /\ [][Next]_vars

\* The runs of the LLM-planned step lists and of the empty list
InitFair == Init /\ Len(mission.steps) <= MaxSteps

\* The event loop runs every queued promise job, and the provider call of the
\* comprehensive phase is assumed to return or fail.
FairSpec ==
    /\ InitFair /\ [][Next]_vars
    /\ WF_vars(CallerResumes)
    /\ WF_vars(\E behaviour \in {"returns", "throwsOnce", "throws"} : GcsaResumes(behaviour))
    /\ WF_vars(\E outcome \in LlmOutcomes : LlmSettles(outcome))

(***************************************************************************)
(* SpecRetry: searchWithRetry(query, options, maxRetries), attempt by      *)
(* attempt, for every value of the maxRetries argument up to MaxRetryArg   *)
(***************************************************************************)
RetryAttempts ==
    { AttemptOk(<<>>),
      AttemptOk(<< Annotation("EV outlook", "https://a.example/ev", ContentShort) >>),
      AttemptFail("timeout"), AttemptFail("rate limited"), AttemptFail("") }

\* what `throw lastError!` throws: the error stored by the last catch, or
\* undefined (NoValue) when no attempt was made
ThrowLastError(r) == [r EXCEPT !.pc = "thrown", !.thrown = r.lastError]

\* the head of the for loop: the next search is issued, or the loop is left
RetryLoopHead(r) ==
    IF r.attempt <= r.maxRetries THEN [r EXCEPT !.pc = "searching"] ELSE ThrowLastError(r)

InitRetry ==
    /\ \E m \in 0..MaxRetryArg :
          retry = Some([maxRetries |-> m, attempt |-> 0, pc |-> "call", events |-> <<>>,
                        lastError |-> NoValue, result |-> NoValue, thrown |-> NoValue])
    /\ PlanIdle /\ AggIdle /\ RunIdle /\ LimiterIdle /\ AgentIdle /\ OverlapIdle /\ PureIdle

\* the call: attempt = 1 and the loop condition
RetryCall ==
    /\ IsSet(retry) /\ Get(retry).pc = "call"
    /\ retry' = Some(RetryLoopHead([Get(retry) EXCEPT !.attempt = 1]))
    /\ UNCHANGED <<pureCall, overlapVars, planVars, aggVars, runVars, limiter, agentVars>>

\* this.search settles: its response is returned, or the catch block runs
RetrySearchSettles(a) ==
    /\ IsSet(retry) /\ Get(retry).pc = "searching"
    /\ LET r == Get(retry)
           resp == Search(a)
           logged == [r EXCEPT !.events = Append(@, [kind |-> "search", attempt |-> r.attempt,
                                                     resp |-> resp, ms |-> 0])]
       IN retry' = Some(
            IF resp.ok THEN [logged EXCEPT !.pc = "returned", !.result = Some(resp)]
            ELSE LET caught == [logged EXCEPT !.lastError = Some(resp.error)] IN
                 IF r.attempt = r.maxRetries THEN ThrowLastError(caught)
                 ELSE [caught EXCEPT !.pc = "backoff"])
    /\ UNCHANGED <<pureCall, overlapVars, planVars, aggVars, runVars, limiter, agentVars>>

\* the backoff timer of Math.pow(2, attempt) * 1000 ms fires; attempt++
RetryBackoffEnds ==
    /\ IsSet(retry) /\ Get(retry).pc = "backoff"
    /\ LET r == Get(retry)
           waited == [r EXCEPT !.events = Append(@, [kind |-> "wait", attempt |-> r.attempt,
                                                     resp |-> Search(AttemptOk(<<>>)),
                                                     ms |-> (2 ^ r.attempt) * 1000]),
                               !.attempt = r.attempt + 1]
       IN retry' = Some(RetryLoopHead(waited))
    /\ UNCHANGED <<pureCall, overlapVars, planVars, aggVars, runVars, limiter, agentVars>>

NextRetry ==
    \/ RetryCall
    \/ \E a \in RetryAttempts : RetrySearchSettles(a)
    \/ RetryBackoffEnds

SpecRetry == InitRetry /\ [][NextRetry]_vars

(***************************************************************************)
(* SpecLimiter: a RateLimiter(maxRequests, timeWindow) used by a caller    *)
(* that awaits each waitIfNeeded() before the next; time in clock ticks    *)
(***************************************************************************)
\* requests.filter(time => now - time < timeWindow)
InWindow(requests, t) == SelectSeq(requests, LAMBDA time : t - time < timeWindow)

\* timeWindow - (now - oldestRequest), oldestRequest being requests[0]
waitTimeOffByOne(requests, t) == timeWindow - (t - requests[1]) - 1

waitTime(requests, t) == timeWindow - (t - requests[1])

InitLimiter ==
    /\ limiter = Some([requests |-> <<>>, clock |-> 0, pc |-> "idle", now |-> 0,
                       wakeAt |-> 0, calls |-> <<>>])
    /\ PlanIdle /\ AggIdle /\ RunIdle /\ RetryIdle /\ AgentIdle /\ OverlapIdle /\ PureIdle

\* this.requests.push(now) and the return of the call
LimiterReturn(l, before) ==
    [l EXCEPT !.requests = Append(@, l.now), !.pc = "idle",
              !.calls = Append(@, [called |-> l.now, returned |-> l.clock,
                                   recorded |-> l.now, before |-> before])]

\* time passes
LimiterTick ==
    /\ IsSet(limiter) /\ Get(limiter).clock < MaxClock
    /\ limiter' = Some([Get(limiter) EXCEPT !.clock = @ + 1])
    /\ UNCHANGED <<pureCall, overlapVars, planVars, aggVars, runVars, retry, agentVars>>

\* waitIfNeeded() up to its await, or to its return when it does not wait
LimiterCall ==
    /\ IsSet(limiter) /\ Get(limiter).pc = "idle" /\ Len(Get(limiter).calls) < MaxCalls
    /\ LET l == Get(limiter)
           kept == InWindow(l.requests, l.clock)
           entered == [l EXCEPT !.now = l.clock, !.requests = kept]
       IN limiter' = Some(
            IF Len(kept) >= maxRequests /\ Len(kept) > 0 /\ waitTime(kept, l.clock) > 0
            THEN [entered EXCEPT !.pc = "waiting", !.wakeAt = l.clock + waitTime(kept, l.clock),
                                 !.calls = Append(@, [called |-> l.clock, returned |-> -1,
                                                      recorded |-> -1, before |-> l.requests])]
            ELSE LimiterReturn(entered, l.requests))
    /\ UNCHANGED <<pureCall, overlapVars, planVars, aggVars, runVars, retry, agentVars>>

\* the timer fires, at its time or later, and the call returns
LimiterWake ==
    /\ IsSet(limiter) /\ Get(limiter).pc = "waiting" /\ Get(limiter).clock >= Get(limiter).wakeAt
    /\ LET l == Get(limiter)
           n == Len(l.calls)
       IN limiter' = Some(LimiterReturn([l EXCEPT !.calls = SubSeq(@, 1, n - 1)], l.calls[n].before))
    /\ UNCHANGED <<pureCall, overlapVars, planVars, aggVars, runVars, retry, agentVars>>

NextLimiter == LimiterTick \/ LimiterCall \/ LimiterWake

SpecLimiter == InitLimiter /\ [][NextLimiter]_vars

(***************************************************************************)
(* SpecAgent: one ResearchAgent and the shared ResearchPipeline under the  *)
(* calls the routes make: createMission, the plan route, startResearch,    *)
(* the plan update (POST /api/research/[id]) and cancelResearch.           *)
(*                                                                         *)
(* An invocation of startResearch is followed await by await. Scope: a     *)
(* mission is started or updated only while no earlier invocation for the  *)
(* same mission is unfinished; invocations for different missions overlap  *)
(* whenever the code admits them.                                          *)
(***************************************************************************)
Missions == {"m1", "m2"}

MissionTitle(id) == IF id = "m1" THEN "EV study" ELSE "Battery study"

\* The completions of the planning call when the client exists: an array of
\* valid steps. Without a client the plan is the fallback plan, whose steps
\* all fail.
AgentCompletions ==
    {[ok |-> TRUE, lead |-> "none", fence |-> FALSE,
           body |-> [kind |-> "array",
                     elems |-> [k \in 1..n |-> AiStep("Market sizing", "Estimate the market size", "high", "1 hour")]]] :
            n \in 1..MaxSteps}

\* what searchWithRetry meets: an answer with one long citation, or
\* maxRetries failures
AgentSearchRuns ==
    { << AttemptOk(<< Annotation("", "https://b.example/sales", ContentLong) >>) >>,
      [k \in 1..maxRetries |-> AttemptFail("timeout")] }

\* the researchPlan of a plan update: the step list as the client edited it
UserPlans == { << createStep("Charging networks", <<"Compare charging networks">>, "high", 0) >> }

Unfinished(id) == {r \in 1..Len(invocations) : invocations[r].mid = id /\ invocations[r].pc # "done"}

\* a change of Mission.status, remembered as the pair <<from, to>>
LogStatus(h, from, to) == IF from = to THEN h ELSE [h EXCEPT !.changes = Append(@, <<from, to>>)]

\* the log at the start of a call
Fresh == [changes |-> <<>>]

\* the answers of the comprehensive LLM call: rejected, or a text
AgentLlmOutcomes == {o \in LlmOutcomes : ~o.ok \/ o.text # ""}

\* 5 + progress * 0.95 for progress = (i / n) * 100, in hundredths of a percent
ProgressOf(i, n) == 500 + (i * 9500) \div n

InitAgent ==
    /\ state = [isProcessing |-> FALSE, currentMission |-> NoValue, progress |-> 0, error |-> NoValue]
    /\ missions = [id \in Missions |-> NoValue]
    /\ invocations = <<>>
    /\ history = Fresh
    /\ clientBuilt \in BOOLEAN
    /\ PlanIdle /\ AggIdle /\ RunIdle /\ RetryIdle /\ LimiterIdle /\ OverlapIdle /\ PureIdle

createMission(id) ==
    /\ ~IsSet(missions[id])
    /\ id = "m1" \/ IsSet(missions["m1"])
    /\ missions' = [missions EXCEPT ![id] =
          Some([title |-> MissionTitle(id), description |-> <<MissionTopic>>, status |-> "pending",
                steps |-> <<>>, results |-> NoValue, updatedAt |-> now])]
    /\ UNCHANGED <<pureCall, overlapVars, planVars, aggVars, runVars, retry, limiter, state, invocations, history, clientBuilt>>

\* POST /api/research/plan: createMission, planResearchSteps, status planning
PlanRoute(id, completion) ==
    /\ ~IsSet(missions[id])
    /\ id = "m1" \/ IsSet(missions["m1"])
    /\ missions' = [missions EXCEPT ![id] =
          Some([title |-> MissionTitle(id), description |-> <<MissionTopic>>, status |-> "planning",
                steps |-> planResearchSteps(clientBuilt, completion, MissionTopic).steps,
                results |-> NoValue, updatedAt |-> now])]
    /\ history' = LogStatus(Fresh, "pending", "planning")
    /\ UNCHANGED <<pureCall, overlapVars, planVars, aggVars, runVars, retry, limiter, state, invocations, clientBuilt>>

\* a startResearch whose refusal passes through the finally block
startResearchCallThroughFinally(id, ms, h) ==
    IF ~IsSet(ms[id]) \/ state.isProcessing
    THEN /\ state' = [state EXCEPT !.isProcessing = FALSE, !.currentMission = NoValue]
         /\ missions' = ms /\ invocations' = invocations
         /\ history' = h
    ELSE /\ state' = [isProcessing |-> TRUE, currentMission |-> Some(id), progress |-> 0,
                      error |-> NoValue]
         /\ missions' = [ms EXCEPT ![id] = Some([Get(ms[id]) EXCEPT !.status = "planning",
                                                                    !.updatedAt = now])]
         /\ invocations' = Append(invocations,
                [mid |-> id, pc |-> "planning", idx |-> 0, context |-> <<>>, basic |-> NoValue,
                 gcsa |-> "notStarted", summary |-> <<>>, outcome |-> "pending", ended |-> NoValue,
                 cancelled |-> FALSE])
         /\ history' = LogStatus(h, Get(ms[id]).status, "planning")

\* startResearch up to its first await, on missions ms and history h: refused
\* when the mission is unknown or the agent is processing, else the mission
\* goes to planning
startResearchCall(id, ms, h) ==
    IF ~IsSet(ms[id]) \/ state.isProcessing
    THEN /\ state' = state /\ missions' = ms /\ invocations' = invocations
         /\ history' = h
    ELSE /\ state' = [isProcessing |-> TRUE, currentMission |-> Some(id), progress |-> 0,
                      error |-> NoValue]
         /\ missions' = [ms EXCEPT ![id] = Some([Get(ms[id]) EXCEPT !.status = "planning",
                                                                    !.updatedAt = now])]
         /\ invocations' = Append(invocations,
                [mid |-> id, pc |-> "planning", idx |-> 0, context |-> <<>>, basic |-> NoValue,
                 gcsa |-> "notStarted", summary |-> <<>>, outcome |-> "pending", ended |-> NoValue,
                 cancelled |-> FALSE])
         /\ history' = LogStatus(h, Get(ms[id]).status, "planning")

CanStart(id) ==
    /\ IsSet(missions[id])
    /\ state.isProcessing \/ (Len(invocations) < MaxStarts /\ Unfinished(id) = {})

startResearch(id) ==
    /\ CanStart(id) \/ ~IsSet(missions[id])
    /\ startResearchCall(id, missions, Fresh)
    /\ UNCHANGED <<pureCall, overlapVars, planVars, aggVars, runVars, retry, limiter, clientBuilt>>

\* POST /api/research/[id]: the edited plan is stored, the status set to
\* researching and startResearch called without awaiting it
PlanUpdate(id, researchPlan) ==
    /\ CanStart(id) /\ Unfinished(id) = {}
    /\ LET m == Get(missions[id]) IN
       startResearchCall(id,
          [missions EXCEPT ![id] = Some([m EXCEPT !.steps = researchPlan, !.status = "researching",
                                                  !.updatedAt = now])],
          LogStatus(Fresh, m.status, "researching"))
    /\ UNCHANGED <<pureCall, overlapVars, planVars, aggVars, runVars, retry, limiter, clientBuilt>>

\* a cancelResearch that leaves currentMission in place
cancelResearchKeepsMission ==
    /\ IF IsSet(state.currentMission)
       THEN LET id == Get(state.currentMission) IN
            /\ missions' = [missions EXCEPT ![id] = Some([Get(missions[id]) EXCEPT
                                                   !.status = "error", !.updatedAt = now])]
            /\ history' = LogStatus(Fresh, Get(missions[id]).status, "error")
            /\ invocations' = [r \in 1..Len(invocations) |->
                                 IF r \in Unfinished(id)
                                 THEN [invocations[r] EXCEPT !.cancelled = TRUE]
                                 ELSE invocations[r]]
       ELSE UNCHANGED <<missions, history, invocations>>
    /\ state' = [state EXCEPT !.isProcessing = FALSE, !.progress = 0,
                              !.error = Some("Research cancelled by user")]
    /\ UNCHANGED <<pureCall, overlapVars, planVars, aggVars, runVars, retry, limiter, clientBuilt>>

cancelResearch ==
    /\ IF IsSet(state.currentMission)
       THEN LET id == Get(state.currentMission) IN
            /\ missions' = [missions EXCEPT ![id] = Some([Get(missions[id]) EXCEPT
                                                   !.status = "error", !.updatedAt = now])]
            /\ history' = LogStatus(Fresh, Get(missions[id]).status, "error")
            /\ invocations' = [r \in 1..Len(invocations) |->
                                 IF r \in Unfinished(id)
                                 THEN [invocations[r] EXCEPT !.cancelled = TRUE]
                                 ELSE invocations[r]]
       ELSE UNCHANGED <<missions, history, invocations>>
    /\ state' = [isProcessing |-> FALSE, currentMission |-> NoValue, progress |-> 0,
                 error |-> Some("Research cancelled by user")]
    /\ UNCHANGED <<pureCall, overlapVars, planVars, aggVars, runVars, retry, limiter, clientBuilt>>

\* the mission of invocation r
MissionOf(r) == Get(missions[invocations[r].mid])

\* invocation r moves to the runner position `next` (see LoopFrom)
AgentAdvance(r, next, i, ctx) ==
    /\ missions' = [missions EXCEPT ![invocations[r].mid] = Some(next.mission)]
    /\ invocations' = [invocations EXCEPT ![r].pc = next.pc, ![r].basic = next.basic,
                                          ![r].idx = i, ![r].context = ctx]

\* a catch block of startResearch that is not followed by the finally block
startResearchCatchOnly(r, m, message) ==
    /\ missions' = [missions EXCEPT ![invocations[r].mid] =
                       Some([m EXCEPT !.status = "error", !.updatedAt = now])]
    /\ history' = LogStatus(Fresh, m.status, "error")
    /\ invocations' = [invocations EXCEPT ![r].pc = "done", ![r].outcome = "rejected",
                                          ![r].ended = Some([status |-> "error", hasResults |-> FALSE])]
    /\ state' = [state EXCEPT !.error = Some(message)]

\* the catch and finally blocks of startResearch, m being the mission as the
\* try block left it
startResearchCatchFrom(r, m, message) ==
    /\ missions' = [missions EXCEPT ![invocations[r].mid] =
                       Some([m EXCEPT !.status = "error", !.updatedAt = now])]
    /\ history' = LogStatus(Fresh, m.status, "error")
    /\ invocations' = [invocations EXCEPT ![r].pc = "done", ![r].outcome = "rejected",
                                          ![r].ended = Some([status |-> "error", hasResults |-> FALSE])]
    /\ state' = [state EXCEPT !.error = Some(message), !.isProcessing = FALSE,
                              !.currentMission = NoValue]

startResearchCatch(r, message) == startResearchCatchFrom(r, MissionOf(r), message)

\* planResearchSteps has settled: the steps are stored, the status set to
\* researching and executeResearchPlan entered
PlanSettles(r, completion) ==
    /\ invocations[r].pc = "planning"
    /\ LET plan == planResearchSteps(clientBuilt, completion, MissionOf(r).description[1])
           m == [MissionOf(r) EXCEPT !.steps = plan.steps, !.status = "researching",
                                     !.updatedAt = now]
       IN IF plan.raised
          THEN startResearchCatch(r, "planning failed")
          ELSE /\ AgentAdvance(r, LoopFrom(m, 1, clientBuilt, now), 1, m.description)
               /\ history' = LogStatus(Fresh, MissionOf(r).status, "researching")
               /\ state' = state
    /\ UNCHANGED <<pureCall, overlapVars, planVars, aggVars, runVars, retry, limiter, clientBuilt>>

\* executeStep's error escaping executeResearchPlan instead of being caught
AgentStepRejectedAborts(r) ==
    /\ invocations[r].pc = "stepRejected"
    /\ startResearchCatch(r, "Search client not initialized")
    /\ UNCHANGED <<pureCall, overlapVars, planVars, aggVars, runVars, retry, limiter, clientBuilt>>

AgentStepRejected(r) ==
    /\ invocations[r].pc = "stepRejected"
    /\ \E i \in {invocations[r].idx} :
       \E m \in {[MissionOf(r) EXCEPT !.steps = AfterStepFailure(@, i)]} :
       \E next \in {LoopFrom(m, i + 1, clientBuilt, now)} :
          AgentAdvance(r, next, i + 1, invocations[r].context)
    /\ UNCHANGED <<pureCall, overlapVars, planVars, aggVars, runVars, retry, limiter, state, history, clientBuilt>>

AgentIssueSearch(r) ==
    /\ invocations[r].pc = "rateLimit"
    /\ LET i == invocations[r].idx
           m == MissionOf(r)
       IN /\ i <= Len(m.steps)
          /\ missions' = [missions EXCEPT ![invocations[r].mid] =
                Some([m EXCEPT !.steps[i].query = Some(optimizeQuery(m.steps[i].description,
                                                                     invocations[r].context))])]
    /\ invocations' = [invocations EXCEPT ![r].pc = "searching"]
    /\ UNCHANGED <<pureCall, overlapVars, planVars, aggVars, runVars, retry, limiter, state, history, clientBuilt>>

\* searchWithRetry settles; on success onStepComplete sets state.progress
AgentSettleStep(r, attempts) ==
    /\ invocations[r].pc = "searching"
    /\ \E i \in {invocations[r].idx}, m0 \in {MissionOf(r)}, resp \in {searchWithRetry(attempts)} :
       \E step \in {executeStepSettle(m0.steps[i], resp, now)} :
       \E mc \in {IF resp.ok THEN [m0 EXCEPT !.steps[i] = step]
                  ELSE [m0 EXCEPT !.steps = AfterStepFailure([m0.steps EXCEPT ![i] = step], i)]},
          ctx \in {IF resp.ok /\ Len(StepResults(step)) > 0
                   THEN invocations[r].context \o summarizeStepResults(step)
                   ELSE invocations[r].context} :
       \E next \in {LoopFrom(mc, i + 1, clientBuilt, now)} :
          /\ AgentAdvance(r, next, i + 1, ctx)
          /\ state' = IF resp.ok THEN [state EXCEPT !.progress = ProgressOf(i, Len(m0.steps))]
                      ELSE state
    /\ UNCHANGED <<pureCall, overlapVars, planVars, aggVars, runVars, retry, limiter, history, clientBuilt>>

\* the tail of executeResearchPlan: results, completed, the background phase
AgentFinish(r) ==
    /\ invocations[r].pc = "awaitBasic"
    /\ LET m == [MissionOf(r) EXCEPT !.results = invocations[r].basic, !.status = "completed",
                                     !.updatedAt = now]
           begun == generateSummaryBegin(m, clientBuilt)
       IN /\ missions' = [missions EXCEPT ![invocations[r].mid] = Some(m)]
          /\ invocations' = [invocations EXCEPT
                ![r].pc = "resuming", ![r].basic = NoValue,
                ![r].gcsa = IF begun.inflight THEN "inflight" ELSE "queued",
                ![r].summary = begun.summary]
    /\ history' = LogStatus(Fresh, MissionOf(r).status, "completed")
    /\ UNCHANGED <<pureCall, overlapVars, planVars, aggVars, runVars, retry, limiter, state, clientBuilt>>

\* the provider answers generateComprehensiveAnalysis, after the caller resumed
AgentLlmSettles(r, outcome) ==
    /\ invocations[r].gcsa = "inflight" /\ invocations[r].pc = "done"
    /\ \E m \in {MissionOf(r)} :
       \E settled \in {generateSummarySettled(m, extractKeyFindings(m.steps), outcome)} :
          invocations' = [invocations EXCEPT ![r].gcsa = "queued", ![r].summary = settled]
    /\ UNCHANGED <<pureCall, overlapVars, planVars, aggVars, runVars, retry, limiter, state, missions, history, clientBuilt>>

\* generateComprehensiveSummaryAsync resumes (no onMissionUpdate is passed)
AgentGcsaResumes(r) ==
    /\ invocations[r].gcsa = "queued"
    /\ missions' = [missions EXCEPT ![invocations[r].mid] =
                       Some(gcsaTry(MissionOf(r), invocations[r].summary, now))]
    /\ invocations' = [invocations EXCEPT ![r].gcsa = "resolved", ![r].summary = <<>>]
    /\ UNCHANGED <<pureCall, overlapVars, planVars, aggVars, runVars, retry, limiter, state, history, clientBuilt>>

\* startResearch resumes after executeResearchPlan: progress 100, finally
AgentReturn(r) ==
    /\ invocations[r].pc = "resuming" /\ invocations[r].gcsa # "queued"
    /\ invocations' = [invocations EXCEPT
          ![r].pc = "done", ![r].outcome = "resolved",
          ![r].ended = Some([status |-> MissionOf(r).status,
                             hasResults |-> IsSet(MissionOf(r).results)])]
    /\ state' = [state EXCEPT !.progress = 10000, !.isProcessing = FALSE,
                              !.currentMission = NoValue]
    /\ UNCHANGED <<pureCall, overlapVars, planVars, aggVars, runVars, retry, limiter, missions, history, clientBuilt>>

\* the continuations of startResearch and of the pipeline calls it awaits, the
\* planning call answering with one of `completions`
RunStepsOn(completions) ==
    \E r \in 1..Len(invocations) :
       \/ \E completion \in completions : PlanSettles(r, completion)
       \/ AgentStepRejected(r)
       \/ AgentIssueSearch(r)
       \/ \E attempts \in AgentSearchRuns : AgentSettleStep(r, attempts)
       \/ AgentFinish(r)
       \/ AgentGcsaResumes(r)
       \/ AgentReturn(r)

\* the provider's answer to the comprehensive call, in the background
BackgroundSteps ==
    \E r \in 1..Len(invocations), outcome \in AgentLlmOutcomes : AgentLlmSettles(r, outcome)

AgentRunsOn(completions) == RunStepsOn(completions) \/ BackgroundSteps

AgentRuns == AgentRunsOn(AgentCompletions)

NextAgent ==
    \/ \E id \in Missions : createMission(id)
    \/ \E id \in Missions, completion \in AgentCompletions : PlanRoute(id, completion)
    \/ \E id \in Missions : startResearch(id)
    \/ \E id \in Missions, researchPlan \in UserPlans : PlanUpdate(id, researchPlan)
    \/ cancelResearch
    \/ AgentRuns

SpecAgent == InitAgent /\ [][NextAgent]_vars

\* FairAgent: the agent holding one mission, started once. The planning call
\* may also be answered with text that is no JSON, which sends planning to the
\* fallback plan while the searches still succeed or fail step by step.
FairCompletions ==
    AgentCompletions \cup
       {[ok |-> TRUE, lead |-> "none", fence |-> FALSE, body |-> [kind |-> "garbage", elems |-> <<>>]]}

FairRuns == AgentRunsOn(FairCompletions)

NextSolo ==
    /\ \/ createMission("m1")
       \/ \E completion \in FairCompletions : PlanRoute("m1", completion)
       \/ startResearch("m1")
       \/ \E researchPlan \in UserPlans : PlanUpdate("m1", researchPlan)
       \/ cancelResearch
       \/ FairRuns
    /\ \A r, q \in 1..Len(invocations') : r = q

\* Every invocation in flight keeps running: the event loop runs each
\* continuation, and the provider answers or fails the planning call and each
\* search. Nothing is assumed of the comprehensive call.
FairAgent == InitAgent /\ [][NextSolo]_vars /\ WF_vars(RunStepsOn(FairCompletions))

\* planResearchSteps has settled and the onProgress callback given to
\* startResearch throws when it is told of the planning
PlanSettlesCallbackThrows(r, completion) ==
    /\ invocations[r].pc = "planning"
    /\ \E plan \in {planResearchSteps(clientBuilt, completion, MissionOf(r).description[1])} :
          startResearchCatchFrom(r, [MissionOf(r) EXCEPT !.steps = plan.steps], "onProgress failed")
    /\ UNCHANGED <<pureCall, overlapVars, planVars, aggVars, runVars, retry, limiter, clientBuilt>>

NextCallback ==
    \/ NextSolo
    \/ \E r \in 1..Len(invocations), completion \in FairCompletions :
          PlanSettlesCallbackThrows(r, completion)

\* FairCallback: FairAgent with a caller whose onProgress callback may throw
FairCallback == InitAgent /\ [][NextCallback]_vars /\ WF_vars(RunStepsOn(FairCompletions))

\* POST /api/research with a valid title and description: createMission, then
\* startResearch called without awaiting it, its rejection caught and logged,
\* and the mission returned with success: true
ResearchRoute(id) ==
    /\ ~IsSet(missions[id])
    /\ id = "m1" \/ IsSet(missions["m1"])
    /\ startResearchCall(id,
          [missions EXCEPT ![id] =
              Some([title |-> MissionTitle(id), description |-> <<MissionTopic>>, status |-> "pending",
                    steps |-> <<>>, results |-> NoValue, updatedAt |-> now])],
          Fresh)
    /\ UNCHANGED <<pureCall, overlapVars, planVars, aggVars, runVars, retry, limiter, clientBuilt>>

NextRoute ==
    \/ \E id \in Missions : ResearchRoute(id)
    \/ AgentRuns

\* FairRoute: the agent behind POST /api/research alone, requests arriving at
\* any moment. Every invocation in flight keeps running, as in FairAgent.
FairRoute == InitAgent /\ [][NextRoute]_vars /\ WF_vars(RunStepsOn(AgentCompletions))

(***************************************************************************)
(* SpecOverlap: invocations of startResearch for one mission that overlap. *)
(* cancelResearch and the finally block of an earlier invocation clear     *)
(* isProcessing while an invocation is still awaiting, so the next         *)
(* startResearch for the same mission is admitted; the plan update stores  *)
(* a new step list whatever the agent is doing. All invocations share the  *)
(* mission object, and each holds the step object it is executing.         *)
(*                                                                         *)
(* A step object is kept as its status alone and is named by its position  *)
(* in heap. Scope: the search client exists, and every plan has MaxSteps   *)
(* or MaxSteps + 1 steps, so that an invocation writing a finished step at *)
(* its own index never writes past the end of a newer list.                *)
(***************************************************************************)
MaxObjects == 8     \* SpecOverlap: step objects created in one behaviour

OverlapPlanLens == MaxSteps..(MaxSteps + 1)

\* n new steps as createStep makes them, appended to the heap h
WithNewSteps(h, n) == h \o [k \in 1..n |-> [status |-> "pending"]]

\* the references to the n steps last appended to the heap h
NewRefs(h, n) == [k \in 1..n |-> Len(h) + k]

InitOverlap ==
    /\ flags = [isProcessing |-> FALSE, currentMission |-> FALSE]
    /\ target = [status |-> "pending", steps |-> <<>>, results |-> NoValue]
    /\ heap = <<>>
    /\ runs = <<>>
    /\ PlanIdle /\ AggIdle /\ RunIdle /\ RetryIdle /\ LimiterIdle /\ AgentIdle /\ PureIdle

\* startResearch up to its first await, on the mission object t
OverlapStartCall(t) ==
    IF flags.isProcessing
    THEN flags' = flags /\ target' = t /\ runs' = runs
    ELSE /\ flags' = [isProcessing |-> TRUE, currentMission |-> TRUE]
         /\ target' = [t EXCEPT !.status = "planning"]
         /\ runs' = Append(runs, [pc |-> "planning", i |-> 0, step |-> 0])

OverlapCanStart == flags.isProcessing \/ Len(runs) < MaxStarts

OverlapStart ==
    /\ OverlapCanStart
    /\ OverlapStartCall(target)
    /\ UNCHANGED <<pureCall, planVars, aggVars, runVars, retry, limiter, agentVars, heap>>

\* POST /api/research/[id] with a researchPlan of n steps
OverlapPlanUpdate(n) ==
    /\ OverlapCanStart
    /\ Len(heap) + n <= MaxObjects
    /\ heap' = WithNewSteps(heap, n)
    /\ OverlapStartCall([target EXCEPT !.steps = NewRefs(heap, n), !.status = "researching"])
    /\ UNCHANGED <<pureCall, planVars, aggVars, runVars, retry, limiter, agentVars>>

OverlapCancel ==
    /\ target' = IF flags.currentMission THEN [target EXCEPT !.status = "error"] ELSE target
    /\ flags' = [isProcessing |-> FALSE, currentMission |-> FALSE]
    /\ UNCHANGED <<pureCall, planVars, aggVars, runVars, retry, limiter, agentVars, heap, runs>>

\* generateBasicResults on the mission object t and the heap h: the two counts
OverlapBasicResults(t, h) ==
    [completedSteps |-> Cardinality({k \in 1..Len(t.steps) : h[t.steps[k]].status = "completed"}),
     totalSteps |-> Len(t.steps)]

\* The loop of executeResearchPlan taken by invocation r from its head at
\* index i, on the mission object t and the heap h as they are now, up to the
\* next await that waits for the provider: executeStep has set the step it read
\* to executing, or the loop is over. After the loop the calls resume without
\* waiting for anything outside: the basic results are stored, the mission is
\* completed, startResearch returns and its finally block runs.
OverlapLoopFrom(r, i, t, h) ==
    IF i > Len(t.steps)
    THEN /\ heap' = h
         /\ target' = [t EXCEPT !.results = Some(OverlapBasicResults(t, h)), !.status = "completed"]
         /\ runs' = [runs EXCEPT ![r] = [pc |-> "done", i |-> i, step |-> 0]]
         /\ flags' = [isProcessing |-> FALSE, currentMission |-> FALSE]
    ELSE /\ heap' = [h EXCEPT ![t.steps[i]].status = "executing"]
         /\ target' = t
         /\ runs' = [runs EXCEPT ![r] = [pc |-> "executing", i |-> i, step |-> t.steps[i]]]
         /\ flags' = flags

\* planResearchSteps resolves with n steps for invocation r
OverlapPlanSettles(r, n) ==
    /\ runs[r].pc = "planning"
    /\ Len(heap) + n <= MaxObjects
    /\ OverlapLoopFrom(r, 1, [target EXCEPT !.steps = NewRefs(heap, n), !.status = "researching"],
                       WithNewSteps(heap, n))
    /\ UNCHANGED <<pureCall, planVars, aggVars, runVars, retry, limiter, agentVars>>

\* mission.steps[i] = completedStep, on the list the mission holds now
StoreStep(steps, i, ref) == IF i <= Len(steps) THEN [steps EXCEPT ![i] = ref] ELSE Append(steps, ref)

\* the search of the step held by invocation r settles
OverlapSettleStep(r, ok) ==
    /\ runs[r].pc = "executing"
    /\ LET i == runs[r].i
           ref == runs[r].step
       IN OverlapLoopFrom(r, i + 1,
             IF ok THEN [target EXCEPT !.steps = StoreStep(@, i, ref)] ELSE target,
             [heap EXCEPT ![ref].status = IF ok THEN "completed" ELSE "error"])
    /\ UNCHANGED <<pureCall, planVars, aggVars, runVars, retry, limiter, agentVars>>

NextOverlap ==
    \/ OverlapStart
    \/ \E n \in OverlapPlanLens : OverlapPlanUpdate(n)
    \/ OverlapCancel
    \/ \E r \in 1..Len(runs), n \in OverlapPlanLens : OverlapPlanSettles(r, n)
    \/ \E r \in 1..Len(runs), ok \in BOOLEAN : OverlapSettleStep(r, ok)

SpecOverlap == InitOverlap /\ [][NextOverlap]_vars

(***************************************************************************)
(* SpecPaced: the provider calls of one mission. executeResearchPlan runs  *)
(* its steps one after another; executeStep awaits waitIfNeeded() once and *)
(* then searchWithRetry, whose attempts are spaced by its backoff timers.  *)
(* Time in clock ticks of one second; a search takes any number of ticks,  *)
(* a timer fires at its time or later.                                     *)
(***************************************************************************)
InitPaced ==
    /\ limiter = Some([requests |-> <<>>, clock |-> 0, pc |-> "idle", now |-> 0,
                       wakeAt |-> 0, calls |-> <<>>])
    /\ \E n \in 1..MaxCalls :
          retry = Some([steps |-> n, step |-> 1, attempt |-> 0, pc |-> "rateLimit",
                        wakeAt |-> 0, issued |-> <<>>])
    /\ PlanIdle /\ AggIdle /\ RunIdle /\ AgentIdle /\ OverlapIdle /\ PureIdle

PacedTick ==
    /\ Get(limiter).clock < MaxClock
    /\ limiter' = Some([Get(limiter) EXCEPT !.clock = @ + 1])
    /\ UNCHANGED <<pureCall, overlapVars, planVars, aggVars, runVars, retry, agentVars>>

\* this.search(query, options) is called by attempt number `attempt` at time t
IssueAttempt(r, attempt, t) ==
    [r EXCEPT !.attempt = attempt, !.pc = "searching", !.issued = Append(@, t)]

\* executeStep: await rateLimiter.waitIfNeeded(), up to its timer or, when it
\* does not wait, on to the first attempt of searchWithRetry
PacedEnterStep ==
    /\ Get(retry).pc = "rateLimit"
    /\ LET l == Get(limiter)
           kept == InWindow(l.requests, l.clock)
           entered == [l EXCEPT !.now = l.clock, !.requests = kept]
       IN IF Len(kept) >= maxRequests /\ Len(kept) > 0 /\ waitTime(kept, l.clock) > 0
          THEN /\ limiter' = Some([entered EXCEPT !.pc = "waiting",
                                                  !.wakeAt = l.clock + waitTime(kept, l.clock)])
               /\ retry' = Some([Get(retry) EXCEPT !.pc = "limited"])
          ELSE /\ limiter' = Some(LimiterReturn(entered, l.requests))
               /\ retry' = Some(IssueAttempt(Get(retry), 1, l.clock))
    /\ UNCHANGED <<pureCall, overlapVars, planVars, aggVars, runVars, agentVars>>

\* the limiter's timer fires: waitIfNeeded records and returns, the first
\* attempt is made
PacedLimiterWake ==
    /\ Get(retry).pc = "limited" /\ Get(limiter).clock >= Get(limiter).wakeAt
    /\ limiter' = Some(LimiterReturn(Get(limiter), Get(limiter).requests))
    /\ retry' = Some(IssueAttempt(Get(retry), 1, Get(limiter).clock))
    /\ UNCHANGED <<pureCall, overlapVars, planVars, aggVars, runVars, agentVars>>

\* the loop of executeResearchPlan goes on to the next step, or is over
PacedNextStep(r) ==
    IF r.step = r.steps THEN [r EXCEPT !.pc = "done"]
    ELSE [r EXCEPT !.step = @ + 1, !.attempt = 0, !.pc = "rateLimit"]

\* an attempt settles: the step is over on success and on the last failure,
\* else the backoff timer of 2^attempt seconds is set
PacedSearchSettles(ok) ==
    /\ Get(retry).pc = "searching"
    /\ LET r == Get(retry) IN
       retry' = Some(IF ok \/ r.attempt = maxRetries THEN PacedNextStep(r)
                     ELSE [r EXCEPT !.pc = "backoff", !.wakeAt = Get(limiter).clock + 2 ^ r.attempt])
    /\ UNCHANGED <<pureCall, overlapVars, planVars, aggVars, runVars, limiter, agentVars>>

\* the backoff timer fires and the next attempt is made
PacedBackoffEnds ==
    /\ Get(retry).pc = "backoff" /\ Get(limiter).clock >= Get(retry).wakeAt
    /\ retry' = Some(IssueAttempt(Get(retry), Get(retry).attempt + 1, Get(limiter).clock))
    /\ UNCHANGED <<pureCall, overlapVars, planVars, aggVars, runVars, limiter, agentVars>>

NextPaced ==
    \/ PacedTick
    \/ PacedEnterStep
    \/ PacedLimiterWake
    \/ \E ok \in BOOLEAN : PacedSearchSettles(ok)
    \/ PacedBackoffEnds

SpecPaced == InitPaced /\ [][NextPaced]_vars

(***************************************************************************)
(* SpecQuery: optimizeQuery called on a step text and a context, and then  *)
(* once more on what it returned.                                          *)
(***************************************************************************)
MaxQueryLen == 3    \* SpecQuery: tokens of a step text

QueryTokens == {"How", "to", "what", "is", "research", "EV", "batteries", WideGap}

QueryTexts == UNION {[1..n -> QueryTokens] : n \in 0..MaxQueryLen}

QueryContexts == {<<>>, <<"to", "charge">>}

InitQuery ==
    /\ pureCall \in {Some([fn |-> "optimizeQuery", step |-> t, context |-> c,
                           result |-> NoValue, again |-> NoValue]) :
                        t \in QueryTexts, c \in QueryContexts}
    /\ PlanIdle /\ AggIdle /\ RunIdle /\ RetryIdle /\ LimiterIdle /\ AgentIdle /\ OverlapIdle

QueryCall ==
    /\ IsSet(pureCall) /\ Get(pureCall).fn = "optimizeQuery" /\ ~IsSet(Get(pureCall).result)
    /\ pureCall' = Some([Get(pureCall) EXCEPT
                            !.result = Some(optimizeQuery(Get(pureCall).step, Get(pureCall).context))])
    /\ UNCHANGED <<planVars, aggVars, runVars, retry, limiter, agentVars, overlapVars>>

QueryCallAgain ==
    /\ IsSet(pureCall) /\ Get(pureCall).fn = "optimizeQuery"
    /\ IsSet(Get(pureCall).result) /\ ~IsSet(Get(pureCall).again)
    /\ pureCall' = Some([Get(pureCall) EXCEPT
                            !.again = Some(optimizeQuery(Get(Get(pureCall).result), <<>>))])
    /\ UNCHANGED <<planVars, aggVars, runVars, retry, limiter, agentVars, overlapVars>>

NextQuery == QueryCall \/ QueryCallAgain

SpecQuery == InitQuery /\ [][NextQuery]_vars

(***************************************************************************)
(* SpecScore: search() on a completion carrying up to MaxCitations         *)
(* annotations, url citations and others in any order.                     *)
(***************************************************************************)
MaxCitations == 12  \* SpecScore: annotations of one completion

CitationLists ==
    UNION {[1..n -> {Annotation("", "https://a.example/ev", ContentShort), OtherAnnotation}] :
              n \in 0..MaxCitations}

InitScore ==
    /\ pureCall \in {Some([fn |-> "search", annotations |-> anns, result |-> NoValue]) :
                        anns \in CitationLists}
    /\ PlanIdle /\ AggIdle /\ RunIdle /\ RetryIdle /\ LimiterIdle /\ AgentIdle /\ OverlapIdle

SearchCall ==
    /\ IsSet(pureCall) /\ Get(pureCall).fn = "search" /\ ~IsSet(Get(pureCall).result)
    /\ pureCall' = Some([Get(pureCall) EXCEPT
                            !.result = Some(Search(AttemptOk(Get(pureCall).annotations)))])
    /\ UNCHANGED <<planVars, aggVars, runVars, retry, limiter, agentVars, overlapVars>>

NextScore == SearchCall

SpecScore == InitScore /\ [][NextScore]_vars

(***************************************************************************)
(* Properties                                                              *)
(***************************************************************************)
FallbackTitles ==
    << "Foundation Research", "Detailed Analysis", "Current Status",
       "Expert Insights", "Summary & Validation" >>

\* The provider outcomes planResearchSteps must absorb: no client, a failed
\* call, text JSON.parse rejects, JSON that is no array, an empty array, an
\* array with an element lacking a required field.
PlanMustFallBack(in) ==
    \/ ~in.clientReady
    \/ ~in.completion.ok
    \/ in.completion.body.kind # "array"
    \/ (~in.completion.fence /\ in.completion.lead = "bracketed prose")
    \/ in.completion.body.elems = <<>>
    \/ \E k \in 1..Len(in.completion.body.elems) :
          \E f \in {"title", "description", "priority", "estimatedDuration"} :
             in.completion.body.elems[k][f] = ""

\* C1: planResearchSteps never raises and returns a non-empty list, whatever
\* the topic and whatever the provider did (no client, failed call,
\* unparsable text, empty array, element with a missing field).
C1_PlanNeverRaises ==
    IsSet(planOut) =>
        /\ ~Get(planOut).raised
        /\ Len(Get(planOut).steps) >= 1

\* C1 witness: the LLM returned an array with an element lacking a field and
\* the call has returned.
C1_Witness ==
    /\ IsSet(planOut)
    /\ Get(planIn).clientReady /\ Get(planIn).completion.ok
    /\ Get(planIn).completion.body.kind = "array"
    /\ Len(Get(planIn).completion.body.elems) = 2
    /\ Get(planIn).completion.body.elems[1].title # ""
    /\ Get(planIn).completion.body.elems[2].estimatedDuration = ""

NonEmptyText(t) == \E k \in 1..Len(t) : t[k] # ""

RunDone == pc = "returned"

\* C3: a step failure does not abort the mission. When executeResearchPlan has
\* returned, every step whose execution failed is in error with a non-empty
\* error string, every other step is completed (so every later step was
\* executed), the mission is completed, completedSteps counts the completed
\* steps and totalSteps the steps.
C3_StepFailureDoesNotAbort ==
    RunDone =>
        /\ mission.status = "completed"
        /\ Len(mission.steps) = Len(inputSteps)
        /\ \A k \in 1..Len(mission.steps) :
              IF k \in searchFailed
              THEN /\ mission.steps[k].status = "error"
                   /\ IsSet(mission.steps[k].error)
                   /\ NonEmptyText(Get(mission.steps[k].error))
              ELSE mission.steps[k].status = "completed"
        /\ IsSet(mission.results)
        /\ Get(mission.results).completedSteps =
              Cardinality({k \in 1..Len(mission.steps) : mission.steps[k].status = "completed"})
        /\ Get(mission.results).completedSteps = Len(mission.steps) - Cardinality(searchFailed)
        /\ Get(mission.results).totalSteps = Len(mission.steps)

\* C3 witness: the five fallback steps, the search of step 2 alone failed, and
\* the run returned with completedSteps = 4 and totalSteps = 5.
C3_Witness ==
    /\ RunDone
    /\ Len(mission.steps) = 5
    /\ \A k \in 1..5 : mission.steps[k].title = FallbackTitles[k]
    /\ searchFailed = {2}
    /\ mission.steps[2].status = "error"
    /\ Get(mission.results).completedSteps = 4
    /\ Get(mission.results).totalSteps = 5

\* C4: executeResearchPlan preserves the step list: the returned mission has
\* as many steps as the input, the same steps at the same positions.
C4_StepListPreserved ==
    RunDone =>
        /\ Len(mission.steps) = Len(inputSteps)
        /\ \A k \in 1..Len(inputSteps) :
              /\ mission.steps[k].id = inputSteps[k].id
              /\ mission.steps[k].title = inputSteps[k].title
              /\ mission.steps[k].order = inputSteps[k].order

\* C4 witness: a returned run in which a step failed and a later step completed.
C4_Witness ==
    /\ RunDone
    /\ \E j, k \in 1..Len(mission.steps) :
          /\ j < k
          /\ mission.steps[j].status = "error"
          /\ mission.steps[k].status = "completed"

\* C5 as stated: when the awaiting caller resumes after executeResearchPlan
\* has resolved, the generating flag is true and the status is completed, for
\* every mission.
C5_FlagSetWhenCallerResumes ==
    IsSet(callerView) =>
        /\ Get(callerView).flag = TRUE
        /\ Get(callerView).status = "completed"

PhaseFinished == gcsa \in {"resolved", "rejected"}

\* C6: once the comprehensive phase has finished, whether the LLM call
\* succeeded or failed, the generating flag is false and the summary holds no
\* trailer; and every completed mission reaches that point, the provider call
\* being assumed to return or fail.
C6_FlagClearedEventually ==
    /\ [](PhaseFinished =>
            /\ IsSet(mission.results)
            /\ ~Get(mission.results).isGeneratingComprehensiveAnalysis
            /\ ~Contains(Get(mission.results).summary, Trailer))
    /\ ((mission.status = "completed") ~> PhaseFinished)

\* C6 witness: the LLM call failed and the phase has finished.
C6_Witness ==
    /\ PhaseFinished
    /\ llm = "settled" /\ llmFailed
    /\ ~Get(mission.results).isGeneratingComprehensiveAnalysis

\* C7 as stated: when generateComprehensiveAnalysis fails, the summary becomes
\* the fast-phase summary with the trailer replaced by the failure notice, the
\* flag is cleared and nothing is thrown.
C7_FailureNoticeOnLlmFailure ==
    (PhaseFinished /\ llm = "settled" /\ llmFailed /\ onMissionUpdate = "none") =>
        /\ Contains(Get(mission.results).summary, FailureNotice)
        /\ Get(mission.results).summary =
              ReplaceFirst(generateBasicSummary(mission, extractKeyFindings(mission.steps)),
                           Trailer, FailureNotice)
        /\ ~Get(mission.results).isGeneratingComprehensiveAnalysis
        /\ gcsa = "resolved"

\* C8 as stated: given an onMissionUpdate callback, once the comprehensive
\* phase has finished updatedAt has been updated and the callback has been
\* invoked exactly once, after the flag was cleared.
C8_CallbackExactlyOnce ==
    (PhaseFinished /\ onMissionUpdate = "given") =>
        /\ Len(updateCalls) = 1
        /\ \A k \in 1..Len(updateCalls) :
              /\ updateCalls[k].flag = FALSE
              /\ updateCalls[k].updatedAt = updateCalls[k].time

\* positions of the first occurrence of each url in a result list
FirstSeen(agg) == {p \in 1..Len(agg) : \A q \in 1..(p - 1) : agg[q].url # agg[p].url}

\* C9: the sources of generateBasicResults hold each url at most once, and the
\* copy kept for a url is the first one met walking the steps in order and
\* each step's results in order.
C9_DedupFirstSeenWins ==
    IsSet(aggOut) =>
        LET src == Get(aggOut).sources
            agg == Flatten([k \in 1..Len(aggSteps) |->
                              IF IsSet(aggSteps[k].results) THEN Get(aggSteps[k].results) ELSE <<>>])
        IN /\ \A i, j \in 1..Len(src) : i # j => src[i].url # src[j].url
           /\ \A i \in 1..Len(src) : \E p \in FirstSeen(agg) : src[i] = agg[p]

\* C9 witness: two steps returned different copies of one url, and the
\* aggregate was built.
C9_Witness ==
    /\ IsSet(aggOut)
    /\ Len(aggSteps) >= 2
    /\ \E a \in 1..Len(StepResults(aggSteps[1])), b \in 1..Len(StepResults(aggSteps[2])) :
          /\ StepResults(aggSteps[1])[a].url = StepResults(aggSteps[2])[b].url
          /\ StepResults(aggSteps[1])[a].content # StepResults(aggSteps[2])[b].content
          /\ \E i \in 1..Len(Get(aggOut).sources) :
                Get(aggOut).sources[i].url = StepResults(aggSteps[1])[a].url

\* C10: sources has at most 20 entries, and it is the first min(20, k) entries
\* of the k first-seen results in the order they were met.
C10_SourcesCapped ==
    IsSet(aggOut) =>
        LET src == Get(aggOut).sources
            agg == Flatten([k \in 1..Len(aggSteps) |->
                              IF IsSet(aggSteps[k].results) THEN Get(aggSteps[k].results) ELSE <<>>])
            first == FirstSeen(agg)
        IN /\ Len(src) <= 20
           /\ Len(src) = Min(20, Cardinality(first))
           /\ \A i \in 1..Len(src) :
                 \E p \in first : /\ Cardinality({q \in first : q <= p}) = i
                                  /\ src[i] = agg[p]

\* C10 witness: more than 20 distinct urls were aggregated and 20 were kept.
C10_Witness ==
    /\ IsSet(aggOut)
    /\ Cardinality({r.url : r \in Range(AllResults(aggSteps))}) > 20
    /\ Len(Get(aggOut).sources) = 20

SearchEvents(r) == SelectSeq(r.events, LAMBDA e : e.kind = "search")

\* C18 as stated: searchWithRetry returns the response of the first successful
\* attempt, makes at most maxRetries attempts, waits 2^attempt seconds after
\* each failed attempt but the last, re-raises the last attempt's error when
\* all fail, and for every maxRetries makes at least one attempt.
C18_RetryContract ==
    (IsSet(retry) /\ Get(retry).pc \in {"returned", "thrown"}) =>
        LET r == Get(retry)
            ev == r.events
            searches == SearchEvents(r)
        IN /\ Len(searches) >= 1
           /\ Len(searches) <= r.maxRetries
           /\ \A k \in 1..Len(ev) :
                 IF k % 2 = 1
                 THEN ev[k].kind = "search" /\ ev[k].attempt = (k + 1) \div 2
                      /\ (k < Len(ev) => ~ev[k].resp.ok)
                 ELSE ev[k].kind = "wait" /\ ev[k].ms = (2 ^ (k \div 2)) * 1000
           /\ Len(ev) % 2 = 1
           /\ r.pc = "returned" =>
                 /\ ev[Len(ev)].resp.ok
                 /\ r.result = Some(ev[Len(ev)].resp)
           /\ r.pc = "thrown" =>
                 /\ Len(searches) = r.maxRetries
                 /\ ~ev[Len(ev)].resp.ok
                 /\ r.thrown = Some(ev[Len(ev)].resp.error)

\* the calls of waitIfNeeded() that have returned
Returned(l) == {k \in 1..Len(l.calls) : l.calls[k].returned >= 0}

\* C16 as stated: in every trailing window of length timeWindow at most
\* maxRequests calls return, and the timestamp recorded for a call is the
\* time at which it returned.
C16_AdmissionBound ==
    IsSet(limiter) =>
        LET l == Get(limiter) IN
        \A k \in Returned(l) :
           /\ l.calls[k].recorded = l.calls[k].returned
           /\ Cardinality({j \in Returned(l) :
                             /\ l.calls[j].returned <= l.calls[k].returned
                             /\ l.calls[k].returned - l.calls[j].returned < timeWindow})
                 <= maxRequests

\* timestamps of `before` that lie in the window ending at t
Recent(before, t) == {k \in 1..Len(before) : t - before[k] < timeWindow}

\* C17: a call made while maxRequests timestamps are recorded inside the
\* window does not return before the oldest of them plus timeWindow.
C17_DelayUntilWindowFrees ==
    IsSet(limiter) =>
        LET l == Get(limiter) IN
        \A k \in Returned(l) :
           LET c == l.calls[k]
               recent == Recent(c.before, c.called)
           IN Cardinality(recent) >= maxRequests =>
                 \E j \in recent :
                    /\ \A i \in recent : c.before[j] <= c.before[i]
                    /\ c.returned >= c.before[j] + timeWindow

\* C17 witness: three calls made at the same tick; the third has returned,
\* timeWindow later or more.
C17_Witness ==
    /\ IsSet(limiter)
    /\ Len(Get(limiter).calls) >= 3
    /\ \A k \in 1..3 : Get(limiter).calls[k].called = 0
    /\ Get(limiter).calls[3].returned >= timeWindow

\* the message of the error executeStep raises in a run of Spec
RaisedMessage ==
    IF searchClient THEN Search(AttemptFail("")).error ELSE <<"Search client not initialized">>

\* C19: a step executeStep has settled is completed with results and
\* completedAt set and no error message, or, when executeStep raised, in error
\* with the raised error's message, completedAt set and no results; every
\* failure is raised to the caller.
C19_ExecuteStepOutcome ==
    IsSet(mission) =>
        \A k \in 1..Len(mission.steps) :
           LET step == mission.steps[k] IN
           /\ (k < idx) => step.status \in {"completed", "error"}
           /\ (step.status = "error") <=> (k \in searchFailed)
           /\ (step.status = "completed") =>
                 /\ IsSet(step.results) /\ IsSet(step.completedAt) /\ ~IsSet(step.error)
           /\ (step.status = "error") =>
                 /\ step.error = Some(RaisedMessage)
                 /\ IsSet(step.completedAt) /\ ~IsSet(step.results)

\* C19 witness: the search of step 1 failed after its retries, step 2 completed.
C19_Witness ==
    /\ IsSet(mission) /\ searchClient /\ Len(mission.steps) >= 2
    /\ mission.steps[1].status = "error" /\ 1 \in searchFailed
    /\ mission.steps[1].error = Some(<<"Failed to search: ", "">>)
    /\ mission.steps[2].status = "completed"
    /\ Len(Get(mission.steps[2].results)) >= 1

\* C20 as stated: query, results, startedAt and completedAt are unset unless
\* the step has entered executing; a step that is completed or in error has
\* entered executing, and completedAt set implies startedAt set.
C20_StepFieldsUnsetUntilExecuting ==
    IsSet(mission) =>
        \A k \in 1..Len(mission.steps) :
           LET step == mission.steps[k] IN
           /\ step.status \in {"pending", "executing", "completed", "error"}
           /\ ~IsSet(step.startedAt) =>
                 /\ step.status = "pending"
                 /\ ~IsSet(step.query) /\ ~IsSet(step.results) /\ ~IsSet(step.completedAt)
           /\ IsSet(step.completedAt) => IsSet(step.startedAt)

\* C11: every change of Mission.status made by createMission, the plan route,
\* startResearch, the plan update, cancelResearch and the run they start goes
\* forward along pending, planning, researching, completed, or goes to error;
\* completed is entered from researching only, and error is never left.
C11_StatusMonotonic ==
    LET Rank(st) == CASE st = "pending" -> 1 [] st = "planning" -> 2
                      [] st = "researching" -> 3 [] st = "completed" -> 4 [] OTHER -> 5
    IN \A k \in 1..Len(history.changes) :
          LET from == history.changes[k][1]
              to == history.changes[k][2]
          IN \/ to = "error"
             \/ /\ from # "error"
                /\ Rank(from) < Rank(to)
                /\ to = "completed" => from = "researching"

\* C12: at most one invocation of startResearch is between its acceptance and
\* its end at any time: no two plan/execute runs overlap.
C12_OneRunAtATime ==
    Cardinality({r \in 1..Len(invocations) : invocations[r].pc # "done"}) <= 1

\* C13: while a run that cancelResearch was called for is still in flight, its
\* mission stays in error, no further step of it enters executing and its
\* results are not written.
C13_CancelledRunStops ==
    [][\A r \in 1..Len(invocations) :
          (invocations[r].cancelled /\ invocations[r].pc # "done") =>
             LET before == Get(missions[invocations[r].mid])
                 after == Get(missions'[invocations[r].mid])
             IN /\ after.status = "error"
                /\ after.results = before.results
                /\ \A k \in 1..Len(after.steps) :
                      after.steps[k].status = "executing" =>
                         k <= Len(before.steps) /\ before.steps[k].status = "executing"]_vars

\* C14: every accepted invocation of startResearch comes to its end, and one
\* that was not cancelled ends resolved with its mission completed and holding
\* results, whatever the planning call, the searches and the comprehensive
\* call did; a mission is in error only when a run of it was cancelled.
C14_UncancelledRunCompletes ==
    /\ [](\A r \in 1..Len(invocations) :
             (invocations[r].pc = "done" /\ ~invocations[r].cancelled) =>
                /\ invocations[r].outcome = "resolved"
                /\ Get(invocations[r].ended).status = "completed"
                /\ Get(invocations[r].ended).hasResults)
    /\ [](\A id \in Missions :
             (IsSet(missions[id]) /\ Get(missions[id]).status = "error") =>
                \E r \in 1..Len(invocations) :
                   invocations[r].mid = id /\ invocations[r].cancelled)
    /\ (invocations # <<>>) ~> (\A r \in 1..Len(invocations) : invocations[r].pc = "done")

\* an uncancelled run has ended completed after planning fell back to the five
\* steps, one search failed and another succeeded, and the comprehensive phase
\* has ended
C14_Witness ==
    \E r \in 1..Len(invocations) :
       /\ invocations[r].pc = "done" /\ ~invocations[r].cancelled
       /\ invocations[r].gcsa = "resolved"
       /\ clientBuilt
       /\ LET m == MissionOf(r) IN
          /\ m.status = "completed" /\ IsSet(m.results)
          /\ Len(m.steps) = Len(FallbackTitles)
          /\ \E k \in 1..Len(m.steps) : m.steps[k].status = "error"
          /\ \E k \in 1..Len(m.steps) : m.steps[k].status = "completed"
          /\ ~Get(m.results).isGeneratingComprehensiveAnalysis

\* C15: when the search client could not be constructed, every invocation of
\* startResearch that was accepted ends rejected, with its mission in error.
C15_MissingClientIsFatal ==
    ~clientBuilt =>
       \A r \in 1..Len(invocations) :
          invocations[r].pc = "done" =>
             /\ invocations[r].outcome = "rejected"
             /\ Get(invocations[r].ended).status = "error"

\* C21: when executeResearchPlan has returned, onStepComplete has been invoked
\* once for every step of the mission, in step order, the k-th invocation with
\* progress k / n * 100.
C21_StepCallbackEveryStep ==
    RunDone =>
       /\ Len(stepCalls) = Len(mission.steps)
       /\ \A k \in 1..Len(stepCalls) :
             /\ stepCalls[k].step = mission.steps[k].id
             /\ stepCalls[k].num = k * 100
             /\ stepCalls[k].den = Len(mission.steps)

\* C24: every list planResearchSteps returns has all steps pending with the
\* order indices 0, 1, ..., n-1 in list order; a list that is not the fallback
\* has one step per element of the LLM's array, in the same order, and every
\* element of that array is valid; the fallback list is the whole template.
C24_PlanShape ==
    IsSet(planOut) =>
        LET in == Get(planIn)
            out == Get(planOut)
            elems == in.completion.body.elems
        IN /\ \A k \in 1..Len(out.steps) :
                 out.steps[k].status = "pending" /\ out.steps[k].order = k - 1
           /\ Len(out.steps) >= 1
           /\ IF out.fallback
              THEN [k \in 1..Len(out.steps) |-> out.steps[k].title] = FallbackTitles
              ELSE /\ in.completion.body.kind = "array"
                   /\ Len(out.steps) = Len(elems)
                   /\ \A k \in 1..Len(elems) :
                         /\ StepHasRequiredFields(elems[k])
                         /\ out.steps[k].title = elems[k].title
                         /\ out.steps[k].description = <<elems[k].description>>
                         /\ out.steps[k].priority = elems[k].priority

\* a fenced array holding a valid and an invalid element gave the whole fallback
C24_Witness ==
    /\ IsSet(planOut)
    /\ Get(planOut).fallback
    /\ Get(planIn).clientReady /\ Get(planIn).completion.ok
    /\ Get(planIn).completion.fence
    /\ Get(planIn).completion.body.kind = "array"
    /\ LET elems == Get(planIn).completion.body.elems IN
       \E j, k \in 1..Len(elems) :
          StepHasRequiredFields(elems[j]) /\ ~StepHasRequiredFields(elems[k])

\* C23 as stated: when executeResearchPlan has returned from a mission of N
\* steps whose searches all returned empty lists, keyFindings and sources are
\* empty and the summary holds the line "Successfully completed 0 of N".
C23_EmptyAggregationZeroOfN ==
    LET n == Len(mission.steps)
        summary == Get(mission.results).summary
    IN (/\ RunDone /\ n >= 1 /\ searchFailed = {}
        /\ \A k \in 1..n : mission.steps[k].results = Some(<<>>))
       => /\ Get(mission.results).keyFindings = <<>>
          /\ Get(mission.results).sources = <<>>
          /\ \E p \in 1..(Len(summary) - 3) :
                /\ summary[p] = "Successfully completed " /\ summary[p + 1] = "0"
                /\ summary[p + 2] = " of " /\ summary[p + 3] = ToString(n)

\* C23 amended: in that case every step is completed, keyFindings and sources
\* are empty, completedSteps = totalSteps = N, and the summary the fast phase
\* wrote holds "Successfully completed N of N" until the comprehensive phase
\* replaces it by the no-findings sentence.
C23_EmptyAggregationNOfN ==
    LET n == Len(mission.steps)
        summary == Get(mission.results).summary
    IN (/\ RunDone /\ n >= 1 /\ searchFailed = {}
        /\ \A k \in 1..n : mission.steps[k].results = Some(<<>>))
       => /\ \A k \in 1..n : mission.steps[k].status = "completed"
          /\ Get(mission.results).keyFindings = <<>>
          /\ Get(mission.results).sources = <<>>
          /\ Get(mission.results).completedSteps = n
          /\ Get(mission.results).totalSteps = n
          /\ IF gcsa = "awaiting"
             THEN \E p \in 1..(Len(summary) - 3) :
                     /\ summary[p] = "Successfully completed " /\ summary[p + 1] = ToString(n)
                     /\ summary[p + 2] = " of " /\ summary[p + 3] = ToString(n)
             ELSE summary = NoFindingsSummary(mission)

\* the five fallback steps all completed with empty result lists, the fast
\* phase's summary still in place
C23_Witness ==
    /\ RunDone /\ gcsa = "awaiting"
    /\ Len(mission.steps) = 5
    /\ \A k \in 1..5 : mission.steps[k].results = Some(<<>>)
    /\ Get(mission.results).completedSteps = 5

C28_ComprehensivePhaseFrame ==
    [][pc = "returned" =>
         /\ mission'.status = mission.status
         /\ mission'.steps = mission.steps
         /\ IsSet(mission'.results)
         /\ \A f \in {"keyFindings", "sources", "recommendations", "completedSteps", "totalSteps"} :
               Get(mission'.results)[f] = Get(mission.results)[f]]_vars

\* the phase has ended through its catch block, on a mission with findings
\* and sources, and the summary and flag were written
C28_Witness ==
    /\ gcsa \in {"resolved", "rejected"}
    /\ \E k \in 1..Len(updateCalls) : updateCalls[k].at = "catch"
    /\ Get(mission.results).keyFindings # <<>>
    /\ Get(mission.results).sources # <<>>
    /\ ~Get(mission.results).isGeneratingComprehensiveAnalysis
    /\ ~Contains(Get(mission.results).summary, Trailer)

\* C29: the comprehensive phase calls generateComprehensiveAnalysis exactly
\* when some completed step holds a result whose content is longer than 100
\* characters, and then once; when no result qualifies no call is made and the
\* phase ends with the no-findings sentence as summary.
C29_ComprehensiveCallIffContent ==
    [][pc' = "returned" =>
         LET steps == mission'.steps
             qualifies == \E k \in 1..Len(steps) :
                             /\ steps[k].status = "completed"
                             /\ \E j \in 1..Len(StepResults(steps[k])) :
                                   ContentLen(StepResults(steps[k])[j].content) > 100
         IN IF ~qualifies
            THEN /\ llm' = "none"
                 /\ gcsa' \in {"resolved", "rejected"} =>
                       Get(mission'.results).summary = NoFindingsSummary(mission')
            ELSE /\ llm' \in {"inflight", "settled"}
                 /\ llm = "settled" => llm' = "settled"]_vars

\* the phase ended without a call on a mission whose only contents have 40
\* and exactly 100 characters
C29_Witness ==
    /\ pc = "returned" /\ gcsa = "resolved" /\ llm = "none"
    /\ Len(mission.steps) >= 1
    /\ \A k \in 1..Len(mission.steps) :
          /\ mission.steps[k].status = "completed"
          /\ Len(StepResults(mission.steps[k])) = 2
          /\ ContentLen(StepResults(mission.steps[k])[2].content) = 100

\* The key findings of a step list when a sentence counts as meaningful iff its
\* length is in lo..hi: per completed step with results, the first such
\* sentence of the top-scored result's content, prefixed by the step's title.
FindingsWithin(steps, lo, hi) ==
    Flatten([k \in 1..Len(steps) |->
        LET rs == StepResults(steps[k]) IN
        IF steps[k].status # "completed" \/ Len(rs) = 0 THEN <<>>
        ELSE LET top == rs[CHOOSE j \in 1..Len(rs) : \A n \in 1..Len(rs) : rs[j].score >= rs[n].score]
                 hits == {n \in 1..Len(top.content) : top.content[n].len \in lo..hi}
             IN IF hits = {} THEN <<>>
                ELSE << <<steps[k].title, ": ",
                          top.content[CHOOSE n \in hits : \A q \in hits : n <= q].text>> >>])

\* C30 as stated: the key findings are, in step order, one per completed step
\* with results: the first sentence of its top-scored result whose length is
\* in [50, 200], both bounds included.
C30_FindingsBoundsIncluded ==
    IsSet(aggOut) => Get(aggOut).keyFindings = FindingsWithin(aggSteps, 50, 200)

\* C30 amended: the same with the sentence length strictly between 50 and
\* 200, that is in 51..199.
C30_FindingsBoundsExcluded ==
    IsSet(aggOut) => Get(aggOut).keyFindings = FindingsWithin(aggSteps, 51, 199)

\* a step whose top result opens with sentences of 50 and of 200 characters
\* gave the sentence of 199 characters as its finding, after a failed step
\* that gave none
C30_Witness ==
    /\ IsSet(aggOut)
    /\ Len(aggSteps) = 2
    /\ aggSteps[1].status = "error"
    /\ aggSteps[2].status = "completed"
    /\ Len(StepResults(aggSteps[2])) = 1
    /\ StepResults(aggSteps[2])[1].content[1].len = 50
    /\ Get(aggOut).keyFindings = << <<aggSteps[2].title, ": ", "Inside the bounds">> >>

\* C27: during the only run of an agent, not cancelled, state.progress (in
\* hundredths of a percent) is 5 once planning has finished and 5 + 95 * k / n
\* once k of the n steps have been processed; it stays within 0..100, never
\* decreases, and is 100 when startResearch resolves.
C27_ProgressBlending ==
    [][(Len(invocations') = 1 /\ ~invocations'[1].cancelled) =>
          LET run == invocations'[1]
              n == Len(Get(missions'[run.mid]).steps)
          IN /\ state'.progress \in 0..10000
             /\ run.pc \in {"stepRejected", "rateLimit", "searching", "awaitBasic"} =>
                   state'.progress = 500 + ((run.idx - 1) * 9500) \div n
             /\ (Len(invocations) = 1 /\ invocations[1].pc # "done") =>
                   state'.progress >= state.progress
             /\ (run.pc = "done" /\ Len(invocations) = 1 /\ invocations[1].pc # "done") =>
                   state'.progress = 10000]_vars

\* the status of the step the mission lists at position k
ListedStatus(t, h, k) == h[t.steps[k]].status

\* C22: steps of one mission run strictly one after another. Whatever
\* startResearch, cancelResearch and plan-update requests arrive, the mission
\* never lists two steps that are executing, and the step listed at position
\* k + 1 becomes executing only once the step at position k is completed or
\* in error.
C22_SequentialSteps ==
    [][/\ \A j, k \in 1..Len(target'.steps) :
             (ListedStatus(target', heap', j) = "executing" /\ ListedStatus(target', heap', k) = "executing")
                => j = k
       /\ \A k \in 2..Len(target'.steps) :
             (/\ ListedStatus(target', heap', k) = "executing"
              /\ target'.steps[k] \in 1..Len(heap) => heap[target'.steps[k]].status # "executing")
                => ListedStatus(target', heap', k - 1) \in {"completed", "error"}]_vars

\* C25: a step that is completed or in error keeps that status for good: the
\* runner neither retries a failed step nor executes a step twice, however the
\* mission is started, cancelled and started again.
C25_TerminalStepsStay ==
    [][\A ref \in 1..Len(heap) :
          heap[ref].status \in {"completed", "error"} => heap'[ref].status = heap[ref].status]_vars

\* a text without filler phrase and without a run of whitespace
FreeOfFillers(q) ==
    /\ \A k \in 1..Len(q) : q[k] # WideGap /\ Lower(q[k]) \notin FillerWords
    /\ \A k \in 1..(Len(q) - 1) : TwoWords(q[k], q[k + 1]) \notin FillerWords

\* C31: optimizeQuery returns a text of at least 3 characters holding no
\* filler phrase and no repeated whitespace, or, when the cleaned text is
\* shorter than 3 characters, the step text as given; optimizing a cleaned
\* result again returns it unchanged.
C31_QueryCleanAndIdempotent ==
    (IsSet(pureCall) /\ Get(pureCall).fn = "optimizeQuery" /\ IsSet(Get(pureCall).result)) =>
       LET call == Get(pureCall)
           out == Get(call.result)
           short == QueryLen(CleanedQuery(call.step, call.context)) < 3
       IN /\ \/ ~short /\ QueryLen(out) >= 3 /\ FreeOfFillers(out)
             \/ short /\ out = call.step
          /\ (~short /\ IsSet(call.again)) => Get(call.again) = out

\* C32: the rate limiter bounds the calls made to the provider. While a
\* mission executes, no window of timeWindow ticks holds more than maxRequests
\* search calls, every retry attempt of searchWithRetry counted.
C32_ProviderCallsBounded ==
    IsSet(retry) =>
       \A t \in 0..MaxClock :
          Cardinality({k \in 1..Len(Get(retry).issued) :
                          t - timeWindow < Get(retry).issued[k] /\ Get(retry).issued[k] <= t})
             <= maxRequests

\* what a step list plans: the titles and descriptions, in order
PlanOf(steps) == [k \in 1..Len(steps) |-> <<steps[k].title, steps[k].description>>]

\* the last call that set a status was a plan update whose startResearch was
\* admitted, and that invocation is still planning
UpdateJustStarted ==
    /\ Len(invocations) > 0 /\ invocations[Len(invocations)].pc = "planning"
    /\ Len(history.changes) = 2 /\ history.changes[2] = <<"researching", "planning">>

\* C33: the research started by a plan update executes the supplied steps in
\* the supplied order: when its planning phase is over the mission still
\* lists the steps of the researchPlan, not a newly planned list.
C33_UpdatedPlanIsExecuted ==
    [][(UpdateJustStarted /\ invocations'[Len(invocations)].pc # "planning") =>
          LET id == invocations[Len(invocations)].mid
          IN PlanOf(Get(missions'[id]).steps) = PlanOf(Get(missions[id]).steps)]_vars

\* C34: every source returned by search() has a relevance score between 0.0
\* and 1.0 (0 and 10 tenths), however many url citations the completion
\* carries, and the scores do not increase along the results.
C34_ScoresInUnitRange ==
    (IsSet(pureCall) /\ Get(pureCall).fn = "search" /\ IsSet(Get(pureCall).result)) =>
       LET sources == Get(Get(pureCall).result).sources
       IN /\ \A k \in 1..Len(sources) : sources[k].score >= 0 /\ sources[k].score <= 10
          /\ \A j, k \in 1..Len(sources) : j < k => sources[j].score >= sources[k].score

\* C35: every accepted startResearch settles, resolved or rejected, provided
\* the provider calls return or fail and the timers fire; once it has settled
\* isProcessing is false and currentMission is unset, on the success path and
\* on the error path.
C35_StartSettlesAndReleases ==
    /\ [](\A r \in 1..Len(invocations) :
             invocations[r].pc = "done" =>
                /\ invocations[r].outcome \in {"resolved", "rejected"}
                /\ ~state.isProcessing /\ ~IsSet(state.currentMission))
    /\ (invocations # <<>>) ~>
          (\A r \in 1..Len(invocations) : invocations[r].pc = "done" /\ ~state.isProcessing)

\* an invocation that was not cancelled has ended rejected, by the catch and
\* finally blocks, with the planned steps stored and the agent released
C35_Witness ==
    /\ Len(invocations) = 1 /\ invocations[1].pc = "done" /\ invocations[1].outcome = "rejected"
    /\ ~invocations[1].cancelled
    /\ Len(MissionOf(1).steps) > 0 /\ MissionOf(1).status = "error"
    /\ ~state.isProcessing /\ ~IsSet(state.currentMission) /\ IsSet(state.error)

\* C36: between agent operations isProcessing is true exactly when
\* currentMission is set, and a set currentMission names a mission of the
\* store for which an invocation of startResearch has not yet ended.
C36_ProcessingIffCurrentMission ==
    /\ state.isProcessing <=> IsSet(state.currentMission)
    /\ IsSet(state.currentMission) =>
          /\ Get(state.currentMission) \in Missions
          /\ IsSet(missions[Get(state.currentMission)])
          /\ Unfinished(Get(state.currentMission)) # {}

\* the agent is processing m2 while the cancelled invocation for m1 is still
\* running
C36_Witness ==
    /\ state.isProcessing /\ state.currentMission = Some("m2")
    /\ Len(invocations) = 2
    /\ invocations[1].mid = "m1" /\ invocations[1].cancelled /\ invocations[1].pc = "searching"
    /\ invocations[2].mid = "m2" /\ invocations[2].pc = "searching"

\* results agree with the step list: totalSteps is its length and
\* completedSteps the number of its steps that are completed
CountsAgree(results, statuses) ==
    /\ results.totalSteps = Len(statuses)
    /\ results.completedSteps = Cardinality({k \in 1..Len(statuses) : statuses[k] = "completed"})
    /\ results.completedSteps >= 0 /\ results.completedSteps <= results.totalSteps

\* C37: a mission whose status is completed holds results, whose totalSteps
\* is the number of its steps and whose completedSteps, between 0 and
\* totalSteps, is the number of its steps that are completed.
C37_CompletedMissionCounts ==
    target.status = "completed" =>
       /\ IsSet(target.results)
       /\ CountsAgree(Get(target.results), [k \in 1..Len(target.steps) |-> heap[target.steps[k]].status])

\* C38: a startResearch that is refused, for an unknown mission id or because
\* the agent is processing, changes nothing: the agent state, the mission
\* store with every mission's status and steps, and the invocations in flight
\* are as before.
C38_RefusedStartChangesNothing ==
    [][\A id \in Missions :
          (startResearch(id) /\ (~IsSet(missions[id]) \/ state.isProcessing)) =>
             UNCHANGED <<state, missions, invocations>>]_vars

\* a startResearch was refused while an invocation is searching: no call has
\* set a status since, and the agent is still processing
C38_Witness ==
    /\ state.isProcessing /\ history = Fresh
    /\ \E r \in 1..Len(invocations) : invocations[r].pc = "searching" /\ ~invocations[r].cancelled

\* C39: every mission that POST /api/research has created and returned with
\* success eventually leaves status pending, whatever other requests to the
\* route arrive before or after it.
C39_PostedMissionLeavesPending ==
    \A id \in Missions :
       [](IsSet(missions[id]) => <>(IsSet(missions[id]) /\ Get(missions[id]).status # "pending"))

====
